---- MODULE Spec2Model ----
(***************************************************************************)
(* Verification model of the adore_map library: the two-level MapCache     *)
(* (RAM + disk LRU caches with eviction callbacks and shutdown manifest),  *)
(* the RoadGraph Dijkstra search and the point Quadtree.                   *)
(***************************************************************************)
EXTENDS Integers, Sequences, FiniteSets, TLC

\* ------------------------------------------------------------------------
\* Bounds of the model
\* ------------------------------------------------------------------------
\* largest ram_cache_size / disk_cache_size a constructor call may pass
MaxRamCap == 2
MaxDiskCap == 2

\* Keys (std::string); "" is the empty key that try_get refuses.
Keys == {"", "a", "b"}
\* JSON documents stored in the cache
Values == {"v1", "v2"}

\* results of try_get other than a document
Null == "nullptr"
Throws == "runtime_error"
NoPut == "none"

VARIABLES
  ram_cache,        \* LRU list of [k, v]; index 1 = most recently used
  disk_cache,       \* LRU list of [k, v]; v is the entry number
  entry_count,
  on_final_clear,
  is_active,
  ram_cache_size,
  disk_cache_size,
  files,            \* blob files: entry number n |-> cache.entry_n.json
  cached_map,       \* lines of the cached.map manifest (<<>> = file absent)
  alive,            \* TRUE between construction and destruction
  last,             \* the last operation and what it returned
  lastPut,          \* key |-> value of the most recent put(k, .), kept while
                    \* the key is held by RAM, Disk or the manifest
  written           \* key |-> suffix of the blob file last written for the
                    \* key, kept while the key is held by Disk or the manifest

cacheVars == <<ram_cache, disk_cache, entry_count, on_final_clear, is_active,
               ram_cache_size, disk_cache_size, files, cached_map, alive,
               last, lastPut, written>>

\* RoadGraph
VARIABLES
  to_successors,    \* LaneID |-> set of LaneIDs
  to_predecessors,
  all_connections,  \* set of [from_id, to_id, weight]
  best_path,        \* the last get_best_path call and its result
  successor_order   \* LaneID |-> its successors in the order they were first
                    \* inserted (history of the add_connection calls)

graphVars == <<to_successors, to_predecessors, all_connections, best_path,
               successor_order>>

\* Quadtree
VARIABLES
  tree,         \* root node: [boundary, points, divided, kids]
  capacity,
  tieOrder,     \* how std::sort orders quadrants of equal distance
  accepted,     \* the points whose insert returned true, in call order
  hung,         \* an insert call that never returns has been made
  answer        \* the last call and what it returned

treeVars == <<tree, capacity, tieOrder, accepted, hung, answer>>

\* Threads calling into one MapCache
VARIABLES
  pc,           \* thread |-> the statement of put / try_get it is at
  call,         \* thread |-> the call it is in, or has returned from
  held,         \* thread |-> its locals: the entry_count it read (n), the
                \* entry number it found in Disk (n), the document it loaded
  ret,          \* thread |-> what its call returned
  base,         \* the cache when the calls now in flight were started
  calls         \* number of calls started so far

threadVars == <<pc, call, held, ret, base, calls>>

\* Map (its quadtree and lane_graph are the variables above) and Route
VARIABLES
  lanes,        \* Map::lanes: lane id |-> the Lane object the pointer refers to
  roads,        \* Map::roads: road id |-> Road, its lanes a set of Lane objects
  heap,         \* the Lane objects: address |-> Lane
  route,        \* a Route
  result        \* the last call on the Map or the Route and what it returned

mapVars == <<lanes, roads, heap, route, result>>

\* Border and BorderSpline
VARIABLES
  border,       \* Border::points
  spline,       \* the BorderSpline: distances_ and the coefficient vectors
  spline_query  \* the last query of the spline and what it computed

borderVars == <<border, spline, spline_query>>

\* Lane::type and Lane::speed_limit of one Lane
VARIABLES
  typed_lane    \* [type, speed_limit] and the arguments of the last set_type

\* Threads calling the projection transforms
VARIABLES
  proj_pc,      \* thread |-> the statement of the transform it is at
  proj_mutex    \* the thread that holds proj_mutex, or 0

projVars == <<proj_pc, proj_mutex>>

geometryVars == <<borderVars, typed_lane, projVars>>

vars == <<cacheVars, graphVars, treeVars, threadVars, mapVars, geometryVars>>

\* the components share no state
otherThanCache == <<graphVars, treeVars, mapVars, geometryVars>>

otherThanGraph == <<cacheVars, treeVars, threadVars, mapVars, geometryVars>>

otherThanTree == <<cacheVars, graphVars, threadVars, mapVars, geometryVars>>

otherThanMap == <<cacheVars, threadVars, geometryVars>>

otherThanGeometry == <<cacheVars, graphVars, treeVars, threadVars, mapVars>>

\* ------------------------------------------------------------------------
\* caches::fixed_sized_cache with caches::LRUCachePolicy
\* ------------------------------------------------------------------------
Cached(c, k) == \E i \in 1..Len(c) : c[i].k = k

IndexOf(c, k) == CHOOSE i \in 1..Len(c) : c[i].k = k

ValueOf(c, k) == c[IndexOf(c, k)].v

CacheKeys(c) == {c[i].k : i \in 1..Len(c)}

RemoveAt(c, i) == SubSeq(c, 1, i - 1) \o SubSeq(c, i + 1, Len(c))

\* LRUCachePolicy::Touch: move the key to the front of the recency list
Touch(c, k) ==
  IF Cached(c, k)
    THEN <<c[IndexOf(c, k)]>> \o RemoveAt(c, IndexOf(c, k))
    ELSE c

\* a TryGet that leaves the recency list alone
TryGetNoTouch(c, k) == c

\* fixed_sized_cache::TryGet: a hit refreshes the recency of the key
TryGetTouch(c, k) == Touch(c, k)

\* LRUCachePolicy::ReplCandidate: the back of the recency list
ReplCandidate(c) == c[Len(c)]

\* fixed_sized_cache::Put needs to evict before inserting a new key
NeedsEvict(c, cap, k) == ~Cached(c, k) /\ Len(c) + 1 > cap

\* fixed_sized_cache::Put after the eviction (if any) has been done:
\* Insert of a new key, or Update (Touch + new value) of a present one
InsertOrUpdate(c, k, v) ==
  IF Cached(c, k)
    THEN <<[k |-> k, v |-> v]>> \o RemoveAt(c, IndexOf(c, k))
    ELSE <<[k |-> k, v |-> v]>> \o c

\* ------------------------------------------------------------------------
\* JsonFileHelpers and the blob files
\* ------------------------------------------------------------------------
\* JsonFileHelpers::save: (over)write cache.entry_n.json with the document
save(f, n, v) == [m \in DOMAIN f \cup {n} |-> IF m = n THEN v ELSE f[m]]

\* std::remove of cache.entry_n.json (no effect when the file is absent)
remove(f, n) == [m \in DOMAIN f \ {n} |-> f[m]]

\* JsonFileHelpers::load: the document, or a std::runtime_error when the
\* file cannot be opened
load(f, n) == IF n \in DOMAIN f THEN f[n] ELSE Throws

\* ------------------------------------------------------------------------
\* MapCache: the part of the state the callbacks work on is passed as a
\* record s = [ram, disk, ec, files, map, wr]; wr notes for every key the
\* suffix of the blob file that was last written for it
\* ------------------------------------------------------------------------
\* a disk erase callback that never decrements entry_count
on_erase_callback_for_disk_cache_keeps_count(s, e, final) ==
  IF final
    THEN [s EXCEPT !.map = Append(@, e)]
    ELSE [s EXCEPT !.files = remove(@, e.v)]

\* a disk erase callback that leaves the blob file where it is
on_erase_callback_for_disk_cache_keeps_blob(s, e, final) ==
  IF final
    THEN [s EXCEPT !.map = Append(@, e)]
    ELSE [s EXCEPT !.ec = @ - 1]

\* MapCache::on_erase_callback_for_disk_cache(key, value_handle)
on_erase_callback_for_disk_cache(s, e, final) ==
  IF final
    THEN [s EXCEPT !.map = Append(@, e)]
    ELSE [s EXCEPT !.files = remove(@, e.v), !.ec = @ - 1]

\* a disk level that inserts without ever evicting
DiskPutNoEvict(s, k, n, cap, final) ==
  [s EXCEPT !.disk = InsertOrUpdate(s.disk, k, n)]

\* disk_cache.Put(key, n): evicts the least recently used entry through the
\* erase callback when the disk level is full, then inserts
DiskPut(s, k, n, cap, final) ==
  LET s1 == IF NeedsEvict(s.disk, cap, k)
              THEN [on_erase_callback_for_disk_cache(s, ReplCandidate(s.disk), final)
                      EXCEPT !.disk = SubSeq(s.disk, 1, Len(s.disk) - 1)]
              ELSE s
  IN [s1 EXCEPT !.disk = InsertOrUpdate(s1.disk, k, n)]

\* MapCache::on_erase_callback_for_ram_cache(key, value_handle)
on_erase_callback_for_ram_cache(s, e, cap, final) ==
  IF Cached(s.disk, e.k)
    THEN [s EXCEPT !.disk = TryGetTouch(@, e.k)]
    ELSE IF s.ec >= cap
      THEN s
      ELSE LET n  == s.ec
               s1 == DiskPut(s, e.k, n, cap, final)
           IN [s1 EXCEPT !.files = save(@, s1.ec, e.v), !.wr[e.k] = s1.ec, !.ec = @ + 1]

\* ram_cache.Put(key, value)
RamPut(s, k, v, rcap, dcap, final) ==
  LET s1 == IF NeedsEvict(s.ram, rcap, k)
              THEN [on_erase_callback_for_ram_cache(s, ReplCandidate(s.ram), dcap, final)
                      EXCEPT !.ram = SubSeq(s.ram, 1, Len(s.ram) - 1)]
              ELSE s
  IN [s1 EXCEPT !.ram = InsertOrUpdate(s1.ram, k, v)]

\* a put that fills RAM only
put_ram_only(s, k, v, rcap, dcap, final) == RamPut(s, k, v, rcap, dcap, final)

\* a put that returns at once when the key is on disk, leaving RAM alone
putSkipWhenOnDisk(s, k, v, rcap, dcap, final) ==
  IF Cached(s.disk, k)
    THEN [s EXCEPT !.disk = TryGetTouch(@, k)]
    ELSE LET s1 == RamPut(s, k, v, rcap, dcap, final)
             n  == s1.ec
             s2 == DiskPut(s1, k, n, dcap, final)
         IN [s2 EXCEPT !.files = save(@, s2.ec, v), !.wr[k] = s2.ec, !.ec = @ + 1]

\* MapCache::put on an active cache.  The entry number handed to
\* disk_cache.Put is entry_count as read before the call; the file name is
\* built from entry_count as it is after the call (the disk erase callback
\* may have decremented it in between).
put(s, k, v, rcap, dcap, final) ==
  LET s1 == RamPut(s, k, v, rcap, dcap, final)
  IN IF Cached(s1.disk, k)
       THEN [s1 EXCEPT !.disk = TryGetTouch(@, k)]
       ELSE LET n  == s1.ec
                s2 == DiskPut(s1, k, n, dcap, final)
            IN [s2 EXCEPT !.files = save(@, s2.ec, v), !.wr[k] = s2.ec, !.ec = @ + 1]

\* MapCache::try_get on an active cache: [s |-> state after, ret |-> result]
try_get(s, k, rcap, dcap, final) ==
  IF k = ""
    THEN [s |-> s, ret |-> Null]
    ELSE IF Cached(s.ram, k)
      THEN [s |-> [s EXCEPT !.ram = TryGetTouch(@, k)], ret |-> ValueOf(s.ram, k)]
      ELSE IF ~Cached(s.disk, k)
        THEN [s |-> s, ret |-> Null]
        ELSE LET s1  == [s EXCEPT !.disk = TryGetTouch(@, k)]
                 doc == load(s1.files, ValueOf(s1.disk, k))
             IN IF doc = Throws
                  THEN [s |-> s1, ret |-> Throws]
                  ELSE [s |-> RamPut(s1, k, doc, rcap, dcap, final), ret |-> doc]

\* The manifest is read with `file >> key >> value`: a line whose key is the
\* empty string holds one token only, so the extraction fails there and
\* the loop ends.
RECURSIVE Replay(_, _, _, _)
Replay(s, lines, i, cap) ==
  IF i > Len(lines) \/ lines[i].k = "" \/ s.ec >= cap
    THEN s
    ELSE Replay([DiskPut(s, lines[i].k, lines[i].v, cap, FALSE) EXCEPT !.ec = @ + 1],
                lines, i + 1, cap)

\* MapCache::set_up_file_cache_path: replay cached.map, then remove it
set_up_file_cache_path(s, cap) ==
  IF Len(s.map) > 0
    THEN [Replay(s, s.map, 1, cap) EXCEPT !.map = <<>>]
    ELSE s

\* XCache::clear erases the elements in the iteration order of the
\* std::unordered_map, which is unspecified: every order of the entries
Orders(c) ==
  {p \in [1..Len(c) -> 1..Len(c)] : \A i, j \in 1..Len(c) : i # j => p[i] # p[j]}

RECURSIVE ClearInOrder(_, _, _, _)
ClearInOrder(s, c, p, i) ==
  IF i > Len(c)
    THEN [s EXCEPT !.disk = <<>>]
    ELSE ClearInOrder(on_erase_callback_for_disk_cache(s, c[p[i]], TRUE), c, p, i + 1)

\* ------------------------------------------------------------------------
\* The cache as a state machine
\* ------------------------------------------------------------------------
NoBlob == -1

State == [ram |-> ram_cache, disk |-> disk_cache, ec |-> entry_count,
          files |-> files, map |-> cached_map, wr |-> written]

Install(s) ==
  /\ ram_cache' = s.ram
  /\ disk_cache' = s.disk
  /\ entry_count' = s.ec
  /\ files' = s.files
  /\ cached_map' = s.map
  /\ written' = [k \in Keys |->
                   IF k \in CacheKeys(s.disk) \cup CacheKeys(s.map)
                     THEN s.wr[k] ELSE NoBlob]

NoOp == [op |-> "none", key |-> "", val |-> NoPut, ret |-> Null]

\* the most recent put of every key some level of the cache still holds
Remember(lp) ==
  lastPut' = [k \in Keys |->
                IF k \in CacheKeys(ram_cache') \cup CacheKeys(disk_cache')
                          \cup CacheKeys(cached_map')
                  THEN lp[k] ELSE NoPut]

\* a put that does not look at is_active
PutWhileInactive(k, v) ==
  /\ alive
  /\ Install(put(State, k, v, ram_cache_size, disk_cache_size, on_final_clear))
  /\ Remember([lastPut EXCEPT ![k] = v])
  /\ last' = [op |-> IF is_active THEN "put" ELSE "put_inactive",
              key |-> k, val |-> v, ret |-> Null]
  /\ UNCHANGED <<on_final_clear, is_active, ram_cache_size, disk_cache_size, alive>>
  /\ UNCHANGED otherThanCache
  /\ UNCHANGED threadVars

Put(k, v) ==
  /\ alive
  /\ IF is_active
       THEN /\ Install(put(State, k, v, ram_cache_size, disk_cache_size, on_final_clear))
            /\ Remember([lastPut EXCEPT ![k] = v])
            /\ last' = [op |-> "put", key |-> k, val |-> v, ret |-> Null]
       ELSE /\ UNCHANGED <<ram_cache, disk_cache, entry_count, files, cached_map,
                           lastPut, written>>
            /\ last' = [NoOp EXCEPT !.op = "put_inactive"]
  /\ UNCHANGED <<on_final_clear, is_active, ram_cache_size, disk_cache_size, alive>>
  /\ UNCHANGED otherThanCache
  /\ UNCHANGED threadVars

TryGet(k) ==
  /\ alive
  /\ LET r == IF is_active
                THEN try_get(State, k, ram_cache_size, disk_cache_size, on_final_clear)
                ELSE [s |-> State, ret |-> Null]
     IN /\ Install(r.s)
        /\ last' = [op |-> "try_get", key |-> k, ret |-> r.ret,
                    val |-> IF last.op = "put" /\ last.key = k THEN last.val ELSE NoPut]
  /\ Remember(lastPut)
  /\ UNCHANGED <<on_final_clear, is_active, ram_cache_size, disk_cache_size, alive>>
  /\ UNCHANGED otherThanCache
  /\ UNCHANGED threadVars

TurnOff ==
  /\ alive /\ is_active
  /\ is_active' = FALSE
  /\ last' = [NoOp EXCEPT !.op = "turn_off"]
  /\ UNCHANGED <<ram_cache, disk_cache, entry_count, on_final_clear, ram_cache_size,
                 disk_cache_size, files, cached_map, alive, lastPut, written>>
  /\ UNCHANGED otherThanCache
  /\ UNCHANGED threadVars

TurnOn ==
  /\ alive /\ ~is_active
  /\ is_active' = TRUE
  /\ last' = [NoOp EXCEPT !.op = "turn_on"]
  /\ UNCHANGED <<ram_cache, disk_cache, entry_count, on_final_clear, ram_cache_size,
                 disk_cache_size, files, cached_map, alive, lastPut, written>>
  /\ UNCHANGED otherThanCache
  /\ UNCHANGED threadVars

\* MapCache::~MapCache: on_final_clear is set, then the members are destroyed
\* in reverse order of declaration: disk_cache (XCache::~XCache -> clear,
\* with callbacks), then ram_cache (fixed_sized_cache::Clear, no callbacks).
Destroy ==
  /\ alive
  /\ \E p \in Orders(disk_cache) :
       Install([ClearInOrder(State, disk_cache, p, 1) EXCEPT !.ram = <<>>])
  /\ on_final_clear' = TRUE
  /\ alive' = FALSE
  /\ last' = [NoOp EXCEPT !.op = "destroy"]
  /\ Remember(lastPut)
  /\ UNCHANGED <<is_active, ram_cache_size, disk_cache_size>>
  /\ UNCHANGED otherThanCache
  /\ UNCHANGED threadVars

\* MapCache::MapCache(file_cache_path, ram_cache_size, disk_cache_size) on
\* the directory the destroyed cache has left behind
Construct(rcap, dcap) ==
  /\ ~alive
  /\ ram_cache_size' = rcap
  /\ disk_cache_size' = dcap
  /\ Install(set_up_file_cache_path(
       [ram |-> <<>>, disk |-> <<>>, ec |-> 0, files |-> files, map |-> cached_map,
        wr |-> written], dcap))
  /\ on_final_clear' = FALSE
  /\ is_active' = TRUE
  /\ alive' = TRUE
  /\ last' = [NoOp EXCEPT !.op = "construct"]
  /\ Remember(lastPut)
  /\ UNCHANGED otherThanCache
  /\ UNCHANGED threadVars

\* ------------------------------------------------------------------------
\* MapCache::put and MapCache::try_get called from several threads.
\* MapCache has no mutex of its own (data members, map_cache.hpp:408-416);
\* each of ram_cache and disk_cache locks its own mutex for the length of
\* one call of Put / TryGet, erase callback included.  A thread therefore
\* advances one library call at a time, and other threads run in between.
\* entry_count is a plain std::size_t read and written outside any lock;
\* the steps below are the sequentially consistent interleavings, a subset
\* of what the data race allows.
\* ------------------------------------------------------------------------
\* most calls the threads start in one run
MaxCalls == 3

Threads == {1, 2}

NoCall == [op |-> "none", key |-> "", val |-> NoPut]

NoLocals == [n |-> 0, doc |-> Null]

\* no thread is inside put or try_get
Quiescent == \A u \in Threads : pc[u] \in {"idle", "returned"}

\* Thread t enters call c, takes its first step to position p with locals h
\* and (when p is "returned") result r.  What the calls in flight started
\* from is noted when the first of them starts.
Enter(t, c, p, h, r) ==
  /\ alive /\ is_active
  /\ calls < MaxCalls
  /\ calls' = calls + 1
  /\ IF Quiescent
       THEN /\ base' = State
            /\ pc' = [u \in Threads |-> IF u = t THEN p ELSE "idle"]
            /\ call' = [u \in Threads |-> IF u = t THEN c ELSE NoCall]
            /\ held' = [u \in Threads |-> IF u = t THEN h ELSE NoLocals]
            /\ ret' = [u \in Threads |-> IF u = t THEN r ELSE Null]
       ELSE /\ pc[t] = "idle"
            /\ base' = base
            /\ pc' = [pc EXCEPT ![t] = p]
            /\ call' = [call EXCEPT ![t] = c]
            /\ held' = [held EXCEPT ![t] = h]
            /\ ret' = [ret EXCEPT ![t] = r]

\* Thread t moves from position p to position q with locals h, result r
Advance(t, q, h, r) ==
  /\ pc' = [pc EXCEPT ![t] = q]
  /\ held' = [held EXCEPT ![t] = h]
  /\ ret' = [ret EXCEPT ![t] = r]
  /\ UNCHANGED <<call, base, calls>>

ThreadFrame ==
  /\ UNCHANGED <<on_final_clear, is_active, ram_cache_size, disk_cache_size, alive, last>>
  /\ UNCHANGED otherThanCache

\* put, map_cache.hpp:122-127: the is_active test and ram_cache.Put
put_ram_cache_Put(t, k, v) ==
  /\ Enter(t, [op |-> "put", key |-> k, val |-> v], "put_disk_cache_TryGet", NoLocals, Null)
  /\ Install(RamPut(State, k, v, ram_cache_size, disk_cache_size, on_final_clear))
  /\ Remember([lastPut EXCEPT ![k] = v])
  /\ ThreadFrame

\* put, map_cache.hpp:128-136: disk_cache.TryGet(key), return on a hit
put_disk_cache_TryGet(t) ==
  /\ pc[t] = "put_disk_cache_TryGet"
  /\ Install([State EXCEPT !.disk = TryGetTouch(@, call[t].key)])
  /\ Remember(lastPut)
  /\ Advance(t, IF Cached(disk_cache, call[t].key) THEN "returned" ELSE "put_disk_cache_Put",
             held[t], Null)
  /\ ThreadFrame

\* put, map_cache.hpp:137: entry_count is read and disk_cache.Put runs
put_disk_cache_Put(t) ==
  /\ pc[t] = "put_disk_cache_Put"
  /\ Install(DiskPut(State, call[t].key, entry_count, disk_cache_size, on_final_clear))
  /\ Remember(lastPut)
  /\ Advance(t, "put_save", [held[t] EXCEPT !.n = entry_count], Null)
  /\ ThreadFrame

\* put, map_cache.hpp:147-148: the blob is saved under entry_count++
put_save(t) ==
  /\ pc[t] = "put_save"
  /\ Install([State EXCEPT !.files = save(@, entry_count, call[t].val),
                           !.wr[call[t].key] = entry_count,
                           !.ec = @ + 1])
  /\ Remember(lastPut)
  /\ Advance(t, "returned", held[t], Null)
  /\ ThreadFrame

\* try_get, map_cache.hpp:157-173: the is_active test, the empty key, and
\* ram_cache.TryGet
try_get_ram_cache_TryGet(t, k) ==
  /\ IF k = ""
       THEN Enter(t, [op |-> "try_get", key |-> k, val |-> NoPut], "returned", NoLocals, Null)
       ELSE IF Cached(ram_cache, k)
         THEN Enter(t, [op |-> "try_get", key |-> k, val |-> NoPut], "returned", NoLocals,
                    ValueOf(ram_cache, k))
         ELSE Enter(t, [op |-> "try_get", key |-> k, val |-> NoPut],
                    "try_get_disk_cache_TryGet", NoLocals, Null)
  /\ Install([State EXCEPT !.ram = IF k = "" THEN @ ELSE TryGetTouch(@, k)])
  /\ Remember(lastPut)
  /\ ThreadFrame

\* try_get, map_cache.hpp:175-186: disk_cache.TryGet(key), a miss returns
try_get_disk_cache_TryGet(t) ==
  /\ pc[t] = "try_get_disk_cache_TryGet"
  /\ Install([State EXCEPT !.disk = TryGetTouch(@, call[t].key)])
  /\ Remember(lastPut)
  /\ IF Cached(disk_cache, call[t].key)
       THEN Advance(t, "try_get_load", [held[t] EXCEPT !.n = ValueOf(disk_cache, call[t].key)],
                    Null)
       ELSE Advance(t, "returned", held[t], Null)
  /\ ThreadFrame

\* try_get, map_cache.hpp:200-203: JsonFileHelpers::load of the blob
try_get_load(t) ==
  /\ pc[t] = "try_get_load"
  /\ LET doc == load(files, held[t].n)
     IN IF doc = Throws
          THEN Advance(t, "returned", held[t], Throws)
          ELSE Advance(t, "try_get_ram_cache_Put", [held[t] EXCEPT !.doc = doc], Null)
  /\ UNCHANGED <<ram_cache, disk_cache, entry_count, files, cached_map, lastPut, written>>
  /\ ThreadFrame

\* try_get, map_cache.hpp:204-206: ram_cache.Put of the loaded document
try_get_ram_cache_Put(t) ==
  /\ pc[t] = "try_get_ram_cache_Put"
  /\ Install(RamPut(State, call[t].key, held[t].doc, ram_cache_size, disk_cache_size,
                    on_final_clear))
  /\ Remember(lastPut)
  /\ Advance(t, "returned", held[t], held[t].doc)
  /\ ThreadFrame

NextThreads ==
  \/ \E t \in Threads, k \in Keys, v \in Values : put_ram_cache_Put(t, k, v)
  \/ \E t \in Threads : put_disk_cache_TryGet(t)
  \/ \E t \in Threads : put_disk_cache_Put(t)
  \/ \E t \in Threads : put_save(t)
  \/ \E t \in Threads, k \in Keys : try_get_ram_cache_TryGet(t, k)
  \/ \E t \in Threads : try_get_disk_cache_TryGet(t)
  \/ \E t \in Threads : try_get_load(t)
  \/ \E t \in Threads : try_get_ram_cache_Put(t)

\* ------------------------------------------------------------------------
\* RoadGraph
\* ------------------------------------------------------------------------
\* most connections a graph of the model holds
MaxConnections == 4

\* LaneIDs that connections join, and a further id that queries may name
Lanes == {1, 2, 3}
QueryLanes == Lanes \cup {4}
\* Connection::weight
Weights == {0, 1, 2}

\* RoadGraph::find_connection: connections are keyed by (from_id, to_id)
HasConnection(conns, from_id, to_id) ==
  \E c \in conns : c.from_id = from_id /\ c.to_id = to_id

find_connection(conns, from_id, to_id) ==
  CHOOSE c \in conns : c.from_id = from_id /\ c.to_id = to_id

\* std::priority_queue with std::greater over (cost, LaneID) pairs: top is
\* the least pair, cost first and LaneID second
PqTop(pq) ==
  CHOOSE e \in pq : \A f \in pq :
    e[1] < f[1] \/ (e[1] = f[1] /\ e[2] <= f[2])

\* RoadGraph::reconstruct_path
RECURSIVE reconstruct_path(_, _, _, _)
reconstruct_path(from, current, previous_roads, path) ==
  IF current = from
    THEN <<from>> \o path
    ELSE reconstruct_path(from, previous_roads[current], previous_roads,
                          <<current>> \o path)

\* a relaxation that never lowers the cost of a lane already reached
ImprovedFirstOnly(succ, conns, shortest_paths, current_road, current_cost) ==
  {n \in succ[current_road] :
     /\ HasConnection(conns, current_road, n)
     /\ n \notin DOMAIN shortest_paths}

\* the successors the relaxation of current_road improves
Improved(succ, conns, shortest_paths, current_road, current_cost) ==
  {n \in succ[current_road] :
     /\ HasConnection(conns, current_road, n)
     /\ \/ n \notin DOMAIN shortest_paths
        \/ current_cost + find_connection(conns, current_road, n).weight
             < shortest_paths[n]}

\* the while loop of RoadGraph::get_best_path
RECURSIVE DijkstraLoop(_, _, _, _, _, _, _, _)
DijkstraLoop(succ, conns, from, to, pq, shortest_paths, previous_roads, visited) ==
  IF pq = {}
    THEN <<>>
    ELSE
      LET top          == PqTop(pq)
          current_cost == top[1]
          current_road == top[2]
          rest         == pq \ {top}
      IN IF current_road \in visited
           THEN DijkstraLoop(succ, conns, from, to, rest, shortest_paths,
                             previous_roads, visited)
           ELSE IF current_road = to
             THEN reconstruct_path(from, to, previous_roads, <<>>)
             ELSE
               LET imp  == Improved(succ, conns, shortest_paths, current_road, current_cost)
                   cost(n) == current_cost + find_connection(conns, current_road, n).weight
                   sp   == [n \in DOMAIN shortest_paths \cup imp |->
                              IF n \in imp THEN cost(n) ELSE shortest_paths[n]]
                   pr   == [n \in DOMAIN previous_roads \cup imp |->
                              IF n \in imp THEN current_road ELSE previous_roads[n]]
               IN DijkstraLoop(succ, conns, from, to,
                               rest \cup {<<cost(n), n>> : n \in imp},
                               sp, pr, visited \cup {current_road})

\* RoadGraph::get_best_path
get_best_path(succ, conns, from, to) ==
  DijkstraLoop(succ, conns, from, to, {<<0, from>>}, [n \in {from} |-> 0],
               [n \in {} |-> 0], {})

NoPath == [called |-> FALSE, from |-> 0, to |-> 0, path |-> <<>>]

Graph == [succ |-> to_successors, pred |-> to_predecessors, conns |-> all_connections]

\* an add_connection that forgets the predecessor side
add_connection_successors_only(g, c) ==
  [succ  |-> [g.succ EXCEPT ![c.from_id] = @ \cup {c.to_id}],
   pred  |-> g.pred,
   conns |-> IF HasConnection(g.conns, c.from_id, c.to_id) THEN g.conns ELSE g.conns \cup {c}]

\* RoadGraph::add_connection; std::unordered_set::insert keeps the element
\* it already holds for the key (from_id, to_id)
add_connection(g, c) ==
  [succ  |-> [g.succ EXCEPT ![c.from_id] = @ \cup {c.to_id}],
   pred  |-> [g.pred EXCEPT ![c.to_id] = @ \cup {c.from_id}],
   conns |-> IF HasConnection(g.conns, c.from_id, c.to_id) THEN g.conns ELSE g.conns \cup {c}]

AddConnection(c) ==
  /\ Cardinality(all_connections) < MaxConnections
       \/ HasConnection(all_connections, c.from_id, c.to_id)
  /\ LET g == add_connection(Graph, c)
     IN /\ to_successors' = g.succ
        /\ to_predecessors' = g.pred
        /\ all_connections' = g.conns
  /\ successor_order' =
       IF c.to_id \in to_successors[c.from_id]
         THEN successor_order
         ELSE [successor_order EXCEPT ![c.from_id] = Append(@, c.to_id)]
  /\ best_path' = NoPath
  /\ UNCHANGED otherThanGraph

GetBestPath(from, to) ==
  /\ best_path' = [called |-> TRUE, from |-> from, to |-> to,
                   path |-> get_best_path(to_successors, all_connections, from, to)]
  /\ UNCHANGED <<to_successors, to_predecessors, all_connections, successor_order>>
  /\ UNCHANGED otherThanGraph

\* get_best_path leaves the graph as it is, so every query is taken right
\* after the graph was built
NextGraph ==
  \/ \E f \in Lanes, t \in Lanes, w \in Weights :
       ~best_path.called /\ AddConnection([from_id |-> f, to_id |-> t, weight |-> w])
  \/ \E f \in QueryLanes, t \in QueryLanes : ~best_path.called /\ GetBestPath(f, t)

\* ------------------------------------------------------------------------
\* Quadtree
\* ------------------------------------------------------------------------
\* most points a tree of the model holds, and the largest node capacity
MaxInserts == 3
MaxCapacity == 2

\* The root boundary is [0,8] x [0,8] and stored points have even
\* coordinates, so that every mid-point down to cells of side 1 is an
\* integer and a cell of side 1 holds one position at most.
RootBoundary == [x_min |-> 0, x_max |-> 8, y_min |-> 0, y_max |-> 8]

\* MapPoint(x, y, parent_id) with its arc length s along the lane
MapPoint(x, y, arc, id) == [x |-> x, y |-> y, s |-> arc, parent_id |-> id]

\* MapPoints offered to insert; (10,4) lies outside the root boundary
Points == {MapPoint(4, 4, 2, 1), MapPoint(6, 4, 4, 1), MapPoint(6, 6, 4, 2),
           MapPoint(4, 6, 2, 2), MapPoint(4, 4, 0, 2), MapPoint(10, 4, 8, 1)}

\* query points of get_nearest_point
QueryPoints == {[x |-> 5, y |-> 5], [x |-> 5, y |-> 4],
                [x |-> 3, y |-> 7], [x |-> 9, y |-> 5]}

\* filters of get_nearest_point: the parent ids a point may have
Filters == {{1, 2}, {1}, {2}}

\* ranges of query
Ranges == {[x_min |-> 5, x_max |-> 7, y_min |-> 5, y_max |-> 7],
           [x_min |-> 4, x_max |-> 6, y_min |-> 4, y_max |-> 6],
           [x_min |-> 0, x_max |-> 4, y_min |-> 0, y_max |-> 4],
           [x_min |-> 6, x_max |-> 10, y_min |-> 4, y_max |-> 4]}

Leaf(b) == [boundary |-> b, points |-> <<>>, divided |-> FALSE, kids |-> <<>>]

\* Quadtree::Boundary::contains
contains(b, p) == p.x >= b.x_min /\ p.x <= b.x_max /\ p.y >= b.y_min /\ p.y <= b.y_max

\* an overlap test that misses ranges touching the boundary in an edge only
intersectsStrict(b, range) ==
  ~(range.x_min >= b.x_max \/ range.x_max <= b.x_min
      \/ range.y_min >= b.y_max \/ range.y_max <= b.y_min)

\* Quadtree::Boundary::intersects
intersects(b, range) ==
  ~(range.x_min > b.x_max \/ range.x_max < b.x_min
      \/ range.y_min > b.y_max \/ range.y_max < b.y_min)

Max3(a, b, c) == IF a >= b /\ a >= c THEN a ELSE IF b >= c THEN b ELSE c

\* Quadtree::Boundary::distance_to_point, squared
distance_to_point(b, p) ==
  LET dx == Max3(b.x_min - p.x, 0, p.x - b.x_max)
      dy == Max3(b.y_min - p.y, 0, p.y - b.y_max)
  IN dx * dx + dy * dy

\* adore::math::distance_2d, squared
distance_2d(p, q) == (p.x - q.x) * (p.x - q.x) + (p.y - q.y) * (p.y - q.y)

\* the four child boundaries of Quadtree::subdivide: NW, NE, SW, SE
ChildBoundaries(b) ==
  LET x_mid == (b.x_min + b.x_max) \div 2
      y_mid == (b.y_min + b.y_max) \div 2
  IN << [x_min |-> b.x_min, x_max |-> x_mid, y_min |-> y_mid, y_max |-> b.y_max],
        [x_min |-> x_mid, x_max |-> b.x_max, y_min |-> y_mid, y_max |-> b.y_max],
        [x_min |-> b.x_min, x_max |-> x_mid, y_min |-> b.y_min, y_max |-> y_mid],
        [x_min |-> x_mid, x_max |-> b.x_max, y_min |-> b.y_min, y_max |-> y_mid] >>

\* A full leaf of side 1 holds copies of one position only: subdividing it
\* puts all of them and the new point into one child, which is a full leaf
\* again, without end.
Splittable(b) == b.x_max - b.x_min >= 2

RECURSIVE insert(_, _, _)
RECURSIVE InsertIntoKids(_, _, _, _)
RECURSIVE Redistribute(_, _, _, _)

\* northwest->insert(p) || northeast->insert(p) || southwest->insert(p)
\* || southeast->insert(p)
InsertIntoKids(t, p, cap, i) ==
  IF i > 4
    THEN [ok |-> "false", t |-> t]
    ELSE LET r == insert(t.kids[i], p, cap)
         IN IF r.ok = "false"
              THEN InsertIntoKids([t EXCEPT !.kids[i] = r.t], p, cap, i + 1)
              ELSE [ok |-> r.ok, t |-> [t EXCEPT !.kids[i] = r.t]]

\* the redistribution loop of Quadtree::subdivide
Redistribute(t, pts, j, cap) ==
  IF j > Len(pts)
    THEN t
    ELSE Redistribute(InsertIntoKids(t, pts[j], cap, 1).t, pts, j + 1, cap)

\* Quadtree::subdivide
subdivide(t, cap) ==
  LET cb == ChildBoundaries(t.boundary)
      t1 == [t EXCEPT !.kids = <<Leaf(cb[1]), Leaf(cb[2]), Leaf(cb[3]), Leaf(cb[4])>>,
                      !.divided = TRUE]
  IN [Redistribute(t1, t.points, 1, cap) EXCEPT !.points = <<>>]

\* Quadtree::insert: ok is "true", "false", or "diverges" when the call
\* never returns
insert(t, p, cap) ==
  IF ~contains(t.boundary, p)
    THEN [ok |-> "false", t |-> t]
    ELSE IF Len(t.points) < cap
      THEN [ok |-> "true", t |-> [t EXCEPT !.points = Append(@, p)]]
      ELSE IF ~t.divided /\ ~Splittable(t.boundary)
        THEN [ok |-> "diverges", t |-> t]
        ELSE InsertIntoKids(IF t.divided THEN t ELSE subdivide(t, cap), p, cap, 1)

\* Quadtree::query
RECURSIVE query(_, _, _)
RECURSIVE QueryKids(_, _, _, _)
QueryKids(t, range, found, i) ==
  IF i > 4 THEN found ELSE QueryKids(t, range, query(t.kids[i], range, found), i + 1)

query(t, range, found) ==
  IF ~intersects(t.boundary, range)
    THEN found
    ELSE LET own == found \o SelectSeq(t.points, LAMBDA p : contains(range, p))
         IN IF t.divided THEN QueryKids(t, range, own, 1) ELSE own

NoPoint == [x |-> -1, y |-> -1, s |-> 0, parent_id |-> 0]

\* the loop of get_nearest_point over the points of one node
RECURSIVE NearestOwn(_, _, _, _, _, _)
NearestOwn(pts, j, q, min_dist, nearest, filter) ==
  IF j > Len(pts)
    THEN [pt |-> nearest, min_dist |-> min_dist]
    ELSE IF pts[j].parent_id \in filter /\ distance_2d(pts[j], q) < min_dist
      THEN NearestOwn(pts, j + 1, q, distance_2d(pts[j], q), pts[j], filter)
      ELSE NearestOwn(pts, j + 1, q, min_dist, nearest, filter)

\* the orders std::sort can leave the four quadrants in
QuadrantOrders == Permutations(1..4)

\* std::sort of the four quadrants by distance; quadrants of equal distance
\* keep their order ("stable") or end up reversed ("reversed")
SortQuadrants(t, q, tie) ==
  LET before(d, i, j) == d[i] < d[j] \/
                         (d[i] = d[j] /\ IF tie = "stable" THEN i < j ELSE i > j)
      sorted(d) == CHOOSE order \in QuadrantOrders :
                     \A k \in 1..3 : before(d, order[k], order[k + 1])
  IN CHOOSE order \in
       {sorted(d) : d \in {[i \in 1..4 |-> distance_to_point(t.kids[i].boundary, q)]}} : TRUE

RECURSIVE get_nearest_point(_, _, _, _, _)
RECURSIVE NearestKids(_, _, _, _, _, _, _, _)
\* a search that descends into the closest quadrant only
NearestKidsClosestOnly(t, order, i, q, min_dist, nearest, filter, tie) ==
  IF i > 1
    THEN [pt |-> nearest, min_dist |-> min_dist]
    ELSE IF distance_to_point(t.kids[order[i]].boundary, q) < min_dist
      THEN LET r == get_nearest_point(t.kids[order[i]], q, min_dist, filter, tie)
           IN [pt |-> IF r.pt # NoPoint THEN r.pt ELSE nearest, min_dist |-> r.min_dist]
      ELSE [pt |-> nearest, min_dist |-> min_dist]

\* the loop of get_nearest_point over the sorted quadrants
NearestKids(t, order, i, q, min_dist, nearest, filter, tie) ==
  IF i > Len(order)
    THEN [pt |-> nearest, min_dist |-> min_dist]
    ELSE IF distance_to_point(t.kids[order[i]].boundary, q) < min_dist
      THEN CHOOSE found \in
             {NearestKids(t, order, i + 1, q, r.min_dist,
                          IF r.pt # NoPoint THEN r.pt ELSE nearest, filter, tie) :
                r \in {get_nearest_point(t.kids[order[i]], q, min_dist, filter, tie)}} : TRUE
      ELSE [pt |-> nearest, min_dist |-> min_dist]

\* Quadtree::get_nearest_point: [pt |-> result or NoPoint, min_dist |-> in/out]
get_nearest_point(t, q, min_dist, filter, tie) ==
  LET own == NearestOwn(t.points, 1, q, min_dist, NoPoint, filter)
  IN IF t.divided
       THEN CHOOSE found \in
              {NearestKids(t, order, 1, q, own.min_dist, own.pt, filter, tie) :
                 order \in {SortQuadrants(t, q, tie)}} : TRUE
       ELSE own

NoAnswer == [op |-> "none"]

Insert(p) ==
  /\ ~hung
  /\ Len(accepted) < MaxInserts
  /\ LET r == insert(tree, p, capacity)
     IN /\ hung' = (r.ok = "diverges")
        /\ tree' = IF r.ok = "diverges" THEN tree ELSE r.t
        /\ accepted' = IF r.ok = "true" THEN Append(accepted, p) ELSE accepted
        /\ answer' = [op |-> "insert", point |-> p, ret |-> r.ok]
  /\ UNCHANGED <<capacity, tieOrder>>
  /\ UNCHANGED otherThanTree

Query(range) ==
  /\ ~hung
  /\ answer' = [op |-> "query", range |-> range, found |-> query(tree, range, <<>>)]
  /\ UNCHANGED <<tree, capacity, tieOrder, accepted, hung>>
  /\ UNCHANGED otherThanTree

Infinity == 1000000

GetNearestPoint(q, filter) ==
  /\ ~hung
  /\ LET r == get_nearest_point(tree, q, Infinity, filter, tieOrder)
     IN answer' = [op |-> "get_nearest_point", query_point |-> q, filter |-> filter,
                   ret |-> r.pt, min_dist |-> r.min_dist]
  /\ UNCHANGED <<tree, capacity, tieOrder, accepted, hung>>
  /\ UNCHANGED otherThanTree

NextTree ==
  \/ \E p \in Points : Insert(p)
  \/ \E range \in Ranges : Query(range)
  \/ \E q \in QueryPoints, filter \in Filters : GetNearestPoint(q, filter)

\* ------------------------------------------------------------------------
\* Map
\* ------------------------------------------------------------------------
RoadIds == {1, 2}

\* the roads a lane may belong to
LaneRoads(id) == IF id = 1 THEN {1} ELSE IF id = 2 THEN {1, 2} ELSE {2}

\* addresses of Lane objects
Addresses == 1..6

\* a function with key k bound to v (std::map::operator[] assignment)
Bind(f, k, v) == [x \in DOMAIN f \cup {k} |-> IF x = k THEN v ELSE f[x]]

\* the sequences that enumerate the set S once (iteration orders of a
\* std::unordered_set)
IterationOrders(S) ==
  {f \in [1..Cardinality(S) -> S] : \A i, j \in 1..Cardinality(S) : i # j => f[i] # f[j]}

\* Border::interpolated_points of the centre of the lanes a map is built
\* from: lane 1 runs east along y = 4, lane 2 starts on the middle point of
\* lane 1 and runs north, lane 3 has no border points
LaneCenter(id) ==
  CASE id = 1 -> <<MapPoint(2, 4, 0, 1), MapPoint(4, 4, 2, 1), MapPoint(6, 4, 4, 1)>>
    [] id = 2 -> <<MapPoint(4, 4, 0, 2), MapPoint(4, 6, 2, 2)>>
    [] OTHER  -> <<>>

Shift(pts, dx, dy) ==
  [i \in 1..Len(pts) |-> [pts[i] EXCEPT !.x = @ + dx, !.y = @ + dy]]

\* Lane: lane 1 is 2 wide, lane 2 is 4 wide and lies left of its reference
LaneObject(id, rid) ==
  [id |-> id, road_id |-> rid, left_of_reference |-> (id = 2),
   borders |-> [center |-> LaneCenter(id),
                inner  |-> IF id = 1 THEN Shift(LaneCenter(id), 0, 1)
                                     ELSE Shift(LaneCenter(id), -2, 0),
                outer  |-> IF id = 1 THEN Shift(LaneCenter(id), 0, -1)
                                     ELSE Shift(LaneCenter(id), 2, 0)]]

\* quadtree.insert(point) for every point of pts in turn;
\* r = [t |-> tree, accepted |-> points accepted, hung |-> an insert diverged]
RECURSIVE InsertAll(_, _, _, _)
InsertAll(r, pts, j, cap) ==
  IF j > Len(pts) \/ r.hung
    THEN r
    ELSE LET i == insert(r.t, pts[j], cap)
         IN InsertAll([t        |-> IF i.ok = "diverges" THEN r.t ELSE i.t,
                       accepted |-> IF i.ok = "true" THEN Append(r.accepted, pts[j])
                                                     ELSE r.accepted,
                       hung     |-> i.ok = "diverges"],
                      pts, j + 1, cap)

\* the points stored in the node t and below it
RECURSIVE PointsIn(_)
PointsIn(t) ==
  {t.points[i] : i \in 1..Len(t.points)}
    \cup UNION {PointsIn(t.kids[i]) : i \in 1..Len(t.kids)}

\* the Map under construction or in use
Source == [quadtree |-> tree, capacity |-> capacity, lanes |-> lanes, roads |-> roads,
           heap |-> heap, lane_graph |-> Graph]

EmptyGraph == [succ |-> [n \in QueryLanes |-> {}], pred |-> [n \in QueryLanes |-> {}],
               conns |-> {}]

\* Map() with the boundary and capacity get_submap assigns to its quadtree
EmptyMap(b, cap) ==
  [quadtree |-> Leaf(b), capacity |-> cap, lanes |-> <<>>, roads |-> <<>>,
   heap |-> <<>>, lane_graph |-> EmptyGraph, hung |-> FALSE]

\* RoadGraph::create_subgraph: the connections with both ends in lane_ids
create_subgraph(g, lane_ids) ==
  LET conns == {c \in g.conns : c.from_id \in lane_ids /\ c.to_id \in lane_ids}
  IN [succ  |-> [n \in QueryLanes |-> {c.to_id : c \in {d \in conns : d.from_id = n}}],
      pred  |-> [n \in QueryLanes |-> {c.from_id : c \in {d \in conns : d.to_id = n}}],
      conns |-> conns]

\* std::make_shared<Lane>: an address no Lane object lives at
Fresh(used) ==
  CHOOSE a \in Addresses : a \notin used /\ \A b \in Addresses \ used : a <= b

\* Map::get_submap, the query boundary
Window(center, width, height) ==
  [x_min |-> center.x - width \div 2, x_max |-> center.x + width \div 2,
   y_min |-> center.y - height \div 2, y_max |-> center.y + height \div 2]

\* Map::get_submap, unique_lane_ids
unique_lane_ids(m, query_boundary) ==
  LET found_points == query(m.quadtree, query_boundary, <<>>)
  IN {found_points[i].parent_id : i \in 1..Len(found_points)}

\* a copy loop that shares the Lane objects of the source map
RECURSIVE CopyLanesShared(_, _, _, _)
CopyLanesShared(m, sub, ord, i) ==
  IF i > Len(ord) \/ sub.hung
    THEN sub
    ELSE IF ord[i] \notin DOMAIN m.lanes
      THEN CopyLanesShared(m, sub, ord, i + 1)
      ELSE LET it == m.heap[m.lanes[ord[i]]]
               ins == InsertAll([t |-> sub.quadtree, accepted |-> <<>>, hung |-> FALSE],
                                it.borders.center, 1, sub.capacity)
           IN CopyLanesShared(m, [sub EXCEPT !.lanes = Bind(@, ord[i], m.lanes[ord[i]]),
                                             !.quadtree = ins.t,
                                             !.hung = ins.hung,
                                             !.roads = IF it.road_id \in DOMAIN m.roads
                                                         THEN Bind(@, it.road_id, m.roads[it.road_id])
                                                         ELSE @],
                                  ord, i + 1)

\* Map::get_submap, the loop over unique_lane_ids in the iteration order ord
RECURSIVE CopyLanes(_, _, _, _)
CopyLanes(m, sub, ord, i) ==
  IF i > Len(ord) \/ sub.hung
    THEN sub
    ELSE IF ord[i] \notin DOMAIN m.lanes
      THEN CopyLanes(m, sub, ord, i + 1)
      ELSE LET it          == m.heap[m.lanes[ord[i]]]
               copied_lane == Fresh(DOMAIN m.heap \cup DOMAIN sub.heap)
               ins         == InsertAll([t |-> sub.quadtree, accepted |-> <<>>,
                                         hung |-> FALSE],
                                        it.borders.center, 1, sub.capacity)
               withLane    == [sub EXCEPT !.heap = Bind(@, copied_lane, it),
                                          !.lanes = Bind(@, ord[i], copied_lane),
                                          !.quadtree = ins.t,
                                          !.hung = ins.hung]
               copied_road == IF it.road_id \in DOMAIN withLane.roads
                                THEN [withLane.roads[it.road_id] EXCEPT
                                        !.lanes = @ \cup {copied_lane}]
                                ELSE [m.roads[it.road_id] EXCEPT !.lanes = {copied_lane}]
           IN CopyLanes(m,
                        IF it.road_id \in DOMAIN m.roads
                          THEN [withLane EXCEPT !.roads = Bind(@, it.road_id, copied_road)]
                          ELSE withLane,
                        ord, i + 1)

\* Map::get_submap; sub.hung says that an insert into the new quadtree
\* never returned
get_submap(m, center, width, height, ord) ==
  LET query_boundary == Window(center, width, height)
      submap == CopyLanes(m, EmptyMap(query_boundary, m.capacity), ord, 1)
  IN [submap EXCEPT !.lane_graph =
        create_subgraph(m.lane_graph, unique_lane_ids(m, query_boundary))]

\* Border::get_interpolated_point at a sample position, clamped to the ends
\* of the border; every s of the model is a sample position
get_interpolated_point(pts, s) ==
  IF s <= pts[1].s
    THEN pts[1]
    ELSE pts[CHOOSE i \in 1..Len(pts) :
               pts[i].s <= s /\ \A j \in 1..Len(pts) : pts[j].s <= s => j <= i]

\* Lane::get_width, squared
get_width(lane, s) ==
  IF lane.borders.inner = <<>> \/ lane.borders.outer = <<>>
    THEN 0
    ELSE distance_2d(get_interpolated_point(lane.borders.inner, s),
                     get_interpolated_point(lane.borders.outer, s))

\* the filter of get_nearest_point that accepts every point
AnyLane == {0} \cup QueryLanes

\* an on-road test that accepts a point at exactly half the width
is_point_on_road_inclusive(m, point, tie) ==
  LET near == get_nearest_point(m.quadtree, point, Infinity, AnyLane, tie)
  IN IF near.pt = NoPoint
       THEN FALSE
       ELSE IF near.pt.parent_id \notin DOMAIN m.lanes
         THEN FALSE
         ELSE 4 * near.min_dist <= get_width(m.heap[m.lanes[near.pt.parent_id]], near.pt.s)

\* Map::is_point_on_road; min_dist and the width are squared in the model,
\* so min_dist < width / 2 reads 4 * min_dist < width
is_point_on_road(m, point, tie) ==
  LET near == get_nearest_point(m.quadtree, point, Infinity, AnyLane, tie)
  IN IF near.pt = NoPoint
       THEN FALSE
       ELSE IF near.pt.parent_id \notin DOMAIN m.lanes
         THEN FALSE
         ELSE 4 * near.min_dist < get_width(m.heap[m.lanes[near.pt.parent_id]], near.pt.s)

NoResult == [op |-> "none"]

NoRoute == [has_map |-> FALSE, constructed |-> FALSE, sections |-> <<>>,
            lane_to_sections |-> <<>>]

\* centres and sizes of the windows of get_submap
Windows == {[center |-> [x |-> 4, y |-> 4], width |-> 8, height |-> 8],
            [center |-> [x |-> 5, y |-> 5], width |-> 2, height |-> 2],
            [center |-> [x |-> 7, y |-> 5], width |-> 2, height |-> 2],
            [center |-> [x |-> 7, y |-> 7], width |-> 2, height |-> 2]}

\* Map construction: a lane is paired from its borders, grouped into its
\* road, and its centre line samples are put into the quadtree.  The Lane
\* object of lane id lives at address id.
AddLane(id, rid) ==
  /\ ~hung
  /\ ~route.has_map
  /\ id \notin DOMAIN lanes
  /\ LET r == InsertAll([t |-> tree, accepted |-> accepted, hung |-> FALSE],
                        LaneCenter(id), 1, capacity)
     IN /\ tree' = r.t
        /\ accepted' = r.accepted
        /\ hung' = r.hung
  /\ heap' = Bind(heap, id, LaneObject(id, rid))
  /\ lanes' = Bind(lanes, id, id)
  /\ roads' = Bind(roads, rid,
                   [id |-> rid,
                    lanes |-> (IF rid \in DOMAIN roads THEN roads[rid].lanes ELSE {})
                                \cup {id}])
  /\ answer' = NoAnswer
  /\ result' = NoResult
  /\ UNCHANGED <<capacity, tieOrder, route>>
  /\ UNCHANGED graphVars
  /\ UNCHANGED otherThanMap

GetSubmap(center, width, height) ==
  /\ ~hung
  /\ \E ord \in IterationOrders(unique_lane_ids(Source, Window(center, width, height))) :
       LET submap == get_submap(Source, center, width, height, ord)
       IN /\ hung' = submap.hung
          /\ result' = [op |-> "get_submap",
                        window |-> Window(center, width, height),
                        returned |-> ~submap.hung,
                        submap |-> IF submap.hung
                                     THEN EmptyMap(Window(center, width, height), capacity)
                                     ELSE submap]
  /\ UNCHANGED <<tree, capacity, tieOrder, accepted, answer>>
  /\ UNCHANGED <<lanes, roads, heap, route>>
  /\ UNCHANGED graphVars
  /\ UNCHANGED otherThanMap

IsPointOnRoad(point) ==
  /\ ~hung
  /\ result' = [op |-> "is_point_on_road", point |-> point,
                ret |-> is_point_on_road(Source, point, tieOrder)]
  /\ UNCHANGED <<lanes, roads, heap, route>>
  /\ UNCHANGED <<treeVars, graphVars>>
  /\ UNCHANGED otherThanMap

\* ------------------------------------------------------------------------
\* Route
\* ------------------------------------------------------------------------
\* start and end points of Route(start_point, end, reference_map)
RouteStarts == {[x |-> 2, y |-> 4], [x |-> 4, y |-> 4]}

RouteEnds == {[x |-> 6, y |-> 4], [x |-> 4, y |-> 4], [x |-> 4, y |-> 6]}

\* states of get_s
States == {[x |-> 2, y |-> 4], [x |-> 6, y |-> 4], [x |-> 5, y |-> 5], [x |-> 9, y |-> 5]}

Abs(n) == IF n < 0 THEN -n ELSE n

\* Route::add_route_section: the section of one lane.  The first lane is
\* entered at start_point.s and the last is left at end_point.s, any other
\* end of a section is the end of the border; reverse swaps the ends of the
\* border; route_s is the length of the sections before.
add_route_section(r, points, start_point, end_point, reverse) ==
  LET lane_id == points[1].parent_id
      from    == IF reverse THEN points[Len(points)].s ELSE points[1].s
      to      == IF reverse THEN points[1].s ELSE points[Len(points)].s
      back    == r.sections[Len(r.sections)]
      section == [lane_id |-> lane_id,
                  route_s |-> IF r.sections = <<>>
                                THEN 0
                                ELSE back.route_s + Abs(back.end_s - back.start_s),
                  start_s |-> IF lane_id = start_point.parent_id THEN start_point.s ELSE from,
                  end_s   |-> IF lane_id = end_point.parent_id THEN end_point.s ELSE to]
  IN [r EXCEPT !.sections = Append(@, section),
               !.lane_to_sections = Bind(@, lane_id, section)]

\* Route::get_length: the sections are contiguous from route_s = 0
get_length(r) ==
  IF r.sections = <<>>
    THEN 0
    ELSE LET back == r.sections[Len(r.sections)]
         IN back.route_s + Abs(back.end_s - back.start_s)

\* Route::Route, the loop over lane_id_route
RECURSIVE AddSections(_, _, _, _, _, _)
AddSections(r, m, lane_id_route, i, nearest_start_point, nearest_end_point) ==
  IF i > Len(lane_id_route)
    THEN r
    ELSE LET lane == m.heap[m.lanes[lane_id_route[i]]]
         IN AddSections(add_route_section(r, lane.borders.center, nearest_start_point,
                                          nearest_end_point, lane.left_of_reference),
                        m, lane_id_route, i + 1, nearest_start_point, nearest_end_point)

\* Route::Route(start_point, end, reference_map):
\* [throws |-> map->lanes.at() raised std::out_of_range, route |-> the Route]
Route(start_point, end, m, tie) ==
  LET nearest_start_point == get_nearest_point(m.quadtree, start_point, Infinity, AnyLane, tie).pt
      nearest_end_point   == get_nearest_point(m.quadtree, end, Infinity, AnyLane, tie).pt
      empty               == [NoRoute EXCEPT !.has_map = TRUE, !.constructed = TRUE]
  IN IF nearest_start_point = NoPoint \/ nearest_end_point = NoPoint
       THEN [throws |-> FALSE, route |-> empty]
       ELSE LET lane_id_route == get_best_path(m.lane_graph.succ, m.lane_graph.conns,
                                               nearest_start_point.parent_id,
                                               nearest_end_point.parent_id)
            IN IF \E i \in 1..Len(lane_id_route) : lane_id_route[i] \notin DOMAIN m.lanes
                 THEN [throws |-> TRUE, route |-> NoRoute]
                 ELSE [throws |-> FALSE,
                       route  |-> AddSections(empty, m, lane_id_route, 1,
                                              nearest_start_point, nearest_end_point)]

\* a get_s that answers 0 when it finds no point of a route lane
get_s_zero_when_none(r, m, state, tie) ==
  IF ~r.has_map
    THEN [raised |-> FALSE, ret |-> Infinity]
    ELSE LET nearest == get_nearest_point(m.quadtree, state, Infinity,
                                          DOMAIN r.lane_to_sections, tie).pt
         IN IF nearest = NoPoint
              THEN [raised |-> FALSE, ret |-> 0]
              ELSE LET near_sec == r.lane_to_sections[nearest.parent_id]
                   IN [raised |-> FALSE,
                       ret |-> near_sec.route_s + (nearest.s - near_sec.start_s)]

\* Route::get_s: [raised |-> lane_to_sections.at() raised, ret |-> the result]
get_s(r, m, state, tie) ==
  IF ~r.has_map
    THEN [raised |-> FALSE, ret |-> Infinity]
    ELSE LET nearest == get_nearest_point(m.quadtree, state, Infinity,
                                          DOMAIN r.lane_to_sections, tie).pt
         IN IF nearest = NoPoint
              THEN [raised |-> FALSE, ret |-> Infinity]
              ELSE IF nearest.parent_id \notin DOMAIN r.lane_to_sections
                THEN [raised |-> TRUE, ret |-> Infinity]
                ELSE LET near_sec == r.lane_to_sections[nearest.parent_id]
                         dist_along_sec == IF near_sec.start_s < near_sec.end_s
                                             THEN nearest.s - near_sec.start_s
                                             ELSE near_sec.start_s - nearest.s
                     IN [raised |-> FALSE, ret |-> near_sec.route_s + dist_along_sec]

\* Route(start_point, end, map); the Map is read-only from here on
MakeRoute(start_point, end) ==
  /\ ~hung
  /\ ~route.has_map
  /\ LET r == Route(start_point, end, Source, tieOrder)
     IN /\ route' = r.route
        /\ result' = [op |-> "Route", throws |-> r.throws]
  /\ UNCHANGED <<lanes, roads, heap>>
  /\ UNCHANGED <<treeVars, graphVars>>
  /\ UNCHANGED otherThanMap

GetS(state) ==
  /\ ~hung
  /\ LET r == get_s(route, Source, state, tieOrder)
     IN result' = [op |-> "get_s", state |-> state, raised |-> r.raised, ret |-> r.ret]
  /\ UNCHANGED <<lanes, roads, heap, route>>
  /\ UNCHANGED <<treeVars, graphVars>>
  /\ UNCHANGED otherThanMap

\* connections of the lane graph of a map
MapConnections == {[from_id |-> 1, to_id |-> 2, weight |-> 1],
                   [from_id |-> 2, to_id |-> 3, weight |-> 1]}

\* quadtree points put in by hand, whatever lanes the map has
Strays == {MapPoint(6, 6, 4, 2), MapPoint(6, 4, 4, 1)}

\* a Map is built (lanes, stray quadtree points, connections), then read:
\* submaps, on-road tests, a Route and its get_s.  A read leaves the map
\* and the route as they are, so every read is taken right after the map
\* or the route was made.
NextMap ==
  \/ \E id \in Lanes, rid \in RoadIds : rid \in LaneRoads(id) /\ AddLane(id, rid)
  \/ \E p \in Strays : ~route.has_map /\ result = NoResult /\ Insert(p)
  \/ \E c \in MapConnections : ~route.has_map /\ result = NoResult /\ AddConnection(c)
  \/ \E w \in Windows :
       ~route.has_map /\ result = NoResult /\ GetSubmap(w.center, w.width, w.height)
  \/ \E point \in QueryPoints :
       ~route.has_map /\ result = NoResult /\ IsPointOnRoad(point)
  \/ \E start_point \in RouteStarts, end \in RouteEnds :
       result = NoResult /\ MakeRoute(start_point, end)
  \/ \E state \in States : result.op \in {"none", "Route"} /\ GetS(state)

\* ------------------------------------------------------------------------
\* Properties of the cache
\* ------------------------------------------------------------------------
StateAfter == [ram |-> ram_cache', disk |-> disk_cache', ec |-> entry_count',
               files |-> files', map |-> cached_map', wr |-> written']

\* the step is a try_get(k) on an active cache
IsTryGet(k) == alive /\ is_active /\ last'.op = "try_get" /\ last'.key = k

\* C1 as stated: on an active cache, try_get(k) issued immediately after
\* put(k, v) returns v, for every key k.
C1_PutThenGet_AnyKey ==
  (last.op = "try_get" /\ last.val # NoPut) => last.ret = last.val

\* C1 amended: on an active cache, try_get(k) issued immediately after
\* put(k, v) returns v, for every non-empty key k.
C1_PutThenGet ==
  (last.op = "try_get" /\ last.val # NoPut /\ last.key # "") => last.ret = last.val

\* C1 witness: with RAM full, a put replaced the document of a key and the
\* try_get that followed returned the new document
C1_Witness ==
  /\ last.op = "try_get"
  /\ last.key = "a"
  /\ last.val = "v2"
  /\ last.ret = "v2"
  /\ Len(ram_cache) = ram_cache_size
  /\ Cached(disk_cache, "a")
  /\ ValueOf(disk_cache, "a") \in DOMAIN files
  /\ files[ValueOf(disk_cache, "a")] = "v1"

\* C2: when a non-empty key k is absent from RAM and present in Disk,
\* try_get(k) returns the value of the most recent put(k, .) and k is in RAM
\* afterwards.  (The empty key, which try_get refuses, is left to C1.)
C2_DiskHitReturnsLatestPut ==
  [][\A k \in Keys \ {""} :
       (IsTryGet(k) /\ ~Cached(ram_cache, k) /\ Cached(disk_cache, k)) =>
         (last'.ret = lastPut[k] /\ Cached(ram_cache', k))]_vars

\* C3: when a cache is destroyed and a new one is constructed on the same
\* path with the same disk_cap, try_get(k) on the new cache returns the value
\* put for k, for every non-empty key k that was in Disk at destruction (the
\* lines of cached.map), and cached.map is gone after construction.
C3_SurvivesRestart ==
  [][(~alive /\ alive' /\ disk_cache_size' = disk_cache_size) =>
       /\ cached_map' = <<>>
       /\ \A i \in 1..Len(cached_map) :
            cached_map[i].k # "" =>
              try_get(StateAfter, cached_map[i].k, ram_cache_size', disk_cache_size',
                      FALSE).ret = lastPut[cached_map[i].k]]_vars

\* C4: RAM never holds more than ram_cap keys and Disk never more than
\* disk_cap keys.
C4_CapacityBounds ==
  alive => (Len(ram_cache) <= ram_cache_size /\ Len(disk_cache) <= disk_cache_size)

\* C4 witness: construction replayed a manifest up to a full Disk, leaving
\* blobs of the earlier cache behind
C4_Witness ==
  /\ last.op = "construct"
  /\ Len(disk_cache) = disk_cache_size
  /\ Cardinality(DOMAIN files) > disk_cache_size

\* C8: the entry number stored in Disk for a key is the suffix of the blob
\* file written for that key, and no two keys in Disk share an entry number.
C8_EntryNumberNamesBlob ==
  alive =>
    /\ \A i \in 1..Len(disk_cache) :
         /\ disk_cache[i].v = written[disk_cache[i].k]
         /\ disk_cache[i].v \in DOMAIN files
    /\ \A i, j \in 1..Len(disk_cache) :
         i # j => disk_cache[i].v # disk_cache[j].v

\* C9: a key evicted from RAM either was in Disk at that moment or is
\* written back: it is in Disk afterwards under an entry number whose blob
\* was written for it.
C9_RamEvictionWritesBack ==
  [][\A k \in Keys :
       (alive /\ alive' /\ Cached(ram_cache, k) /\ ~Cached(ram_cache', k)) =>
         \/ Cached(disk_cache, k)
         \/ /\ Cached(disk_cache', k)
            /\ ValueOf(disk_cache', k) = written'[k]
            /\ written'[k] \in DOMAIN files']_vars

\* C10: when the blob a Disk entry refers to cannot be read, try_get returns
\* a miss instead of raising an error, and RAM is unchanged by the call.
C10_UnreadableBlobIsMiss ==
  [][\A k \in Keys \ {""} :
       (IsTryGet(k) /\ ~Cached(ram_cache, k) /\ Cached(disk_cache, k)
          /\ ValueOf(disk_cache, k) \notin DOMAIN files) =>
         (last'.ret = Null /\ ram_cache' = ram_cache)]_vars

\* what try_get(k) would return in state s (s itself is left alone)
WouldReturn(s, k) ==
  try_get(s, k, ram_cache_size, disk_cache_size, on_final_clear).ret

\* C12: while the cache is inactive, put leaves RAM, Disk, entry_count and
\* the blob files unchanged and try_get returns a miss without changing any
\* recency; turn_off and turn_on change none of them either, so after
\* turn_on every key is returned with the value try_get would have returned
\* before turn_off.
C12_InactiveIsFrozen ==
  [][/\ (alive /\ alive' /\ (~is_active \/ ~is_active')) =>
          /\ UNCHANGED <<ram_cache, disk_cache, entry_count, files>>
          /\ \A k \in Keys : WouldReturn(StateAfter, k) = WouldReturn(State, k)
     /\ (alive /\ ~is_active /\ last'.op = "try_get") => last'.ret = Null]_vars

\* C12 witness: the cache has just been turned on again with a key in Disk
\* only, and a lookup of that key reloads its document
C12_Witness ==
  /\ last.op = "turn_on"
  /\ is_active
  /\ Cached(disk_cache, "a")
  /\ ~Cached(ram_cache, "a")
  /\ WouldReturn(State, "a") = "v2"

\* the keys of a cache level, most recently used first
KeysOf(c) == [i \in 1..Len(c) |-> c[i].k]

Without(seq, k) == SelectSeq(seq, LAMBDA x : x # k)

\* the step is a use of a key: an active put, or a try_get that returns a
\* document
IsUse == \/ last'.op = "put"
         \/ last'.op = "try_get" /\ last'.ret \notin {Null, Throws}

Observable(s) == [ram |-> s.ram, disk |-> s.disk, ec |-> s.ec, files |-> s.files]

\* call c as one whole operation on s: [s |-> state after, ret |-> result]
Whole(s, c) ==
  IF c.op = "put"
    THEN [s |-> put(s, c.key, c.val, ram_cache_size, disk_cache_size, on_final_clear),
          ret |-> Null]
    ELSE IF c.op = "try_get"
      THEN try_get(s, c.key, ram_cache_size, disk_cache_size, on_final_clear)
      ELSE [s |-> s, ret |-> Null]

\* the calls made since base, run whole in the order t then u, end in the
\* present cache with the results the threads got
SameAsSequential(t, u) ==
  LET r1 == Whole(base, call[t])
      r2 == Whole(r1.s, call[u])
  IN /\ Observable(r2.s) = Observable(State)
     /\ r1.ret = ret[t]
     /\ r2.ret = ret[u]

\* C11: put and try_get called from several threads are serialized: once
\* the calls have returned, the cache and the results are those of some
\* sequential order of the whole operations; and two puts of distinct keys
\* that are in flight together never hold the same entry_count.
C11_CallsAreSerialized ==
  /\ Quiescent => (SameAsSequential(1, 2) \/ SameAsSequential(2, 1))
  /\ \A t, u \in Threads :
       (t # u /\ pc[t] = "put_save" /\ pc[u] = "put_save" /\ call[t].key # call[u].key)
         => held[t].n # held[u].n

\* C25: entry_count is the number of keys in Disk, after construction
\* (with or without manifest replay) and after every put and try_get
C25_EntryCountIsDiskSize ==
  alive => entry_count = Len(disk_cache)

\* C25 witness: construction has replayed a manifest of two lines
C25_Witness ==
  /\ alive
  /\ last.op = "construct"
  /\ entry_count = 2
  /\ Len(disk_cache) = 2

\* the state the RAM erase callback leaves when RAM evicts its candidate
AfterRamEviction ==
  on_erase_callback_for_ram_cache(State, ReplCandidate(ram_cache), disk_cache_size,
                                  on_final_clear)

Min2(a, b) == IF a <= b THEN a ELSE b

SetMin(S) == CHOOSE m \in S : \A x \in S : m <= x

\* least total weight of a walk from a to n with at most k connections
RECURSIVE LeastCost(_, _, _)
LeastCost(k, a, n) ==
  IF k = 0
    THEN IF n = a THEN 0 ELSE Infinity
    ELSE SetMin({LeastCost(k - 1, a, n)} \cup
                {Min2(Infinity, LeastCost(k - 1, a, c.from_id) + c.weight) :
                   c \in {d \in all_connections : d.to_id = n}})

RECURSIVE PathWeight(_, _)
PathWeight(path, i) ==
  IF i >= Len(path)
    THEN 0
    ELSE find_connection(all_connections, path[i], path[i + 1]).weight
           + PathWeight(path, i + 1)

\* C5: a non-empty path returned by get_best_path(a, b) starts with a, ends
\* with b, follows stored connections only, and its total weight is the
\* least over all paths from a to b.
C5_BestPathIsShortest ==
  (best_path.called /\ best_path.path # <<>>) =>
    LET P == best_path.path
    IN /\ P[1] = best_path.from
       /\ P[Len(P)] = best_path.to
       /\ \A i \in 1..(Len(P) - 1) : HasConnection(all_connections, P[i], P[i + 1])
       /\ PathWeight(P, 1) = LeastCost(Cardinality(QueryLanes), best_path.from, best_path.to)

\* C5 witness: a two-connection path was returned although a heavier direct
\* connection from a to b is stored
C5_Witness ==
  /\ best_path.called
  /\ Len(best_path.path) = 3
  /\ HasConnection(all_connections, best_path.from, best_path.to)
  /\ find_connection(all_connections, best_path.from, best_path.to).weight
       > PathWeight(best_path.path, 1)


\* the paths from a to b over stored connections that visit no lane twice
SimplePaths(a, b) ==
  {p \in UNION {[1..k -> Lanes] : k \in 1..Cardinality(Lanes)} :
     /\ p[1] = a /\ p[Len(p)] = b
     /\ \A i, j \in 1..Len(p) : i # j => p[i] # p[j]
     /\ \A i \in 1..(Len(p) - 1) : HasConnection(all_connections, p[i], p[i + 1])}

\* those of them of least total weight
ShortestPaths(a, b) ==
  {p \in SimplePaths(a, b) : \A q \in SimplePaths(a, b) : PathWeight(p, 1) <= PathWeight(q, 1)}

\* the position of n among the successors of a, in insertion order
Rank(a, n) == CHOOSE i \in 1..Len(successor_order[a]) : successor_order[a][i] = n

\* p comes before q: where they first differ, p takes the successor that was
\* inserted earlier
LexBefore(p, q) ==
  \E i \in 2..Len(p) :
    /\ i <= Len(q)
    /\ \A j \in 1..(i - 1) : p[j] = q[j]
    /\ p[i] # q[i]
    /\ Rank(p[i - 1], p[i]) < Rank(p[i - 1], q[i])

\* C21: of several paths from a to b of the same least total weight,
\* get_best_path returns the lexicographically first, successors being
\* compared by the order in which they were inserted.
C21_FirstOfTheShortestPaths ==
  (best_path.called /\ best_path.path # <<>>) =>
    \A q \in ShortestPaths(best_path.from, best_path.to) :
      q # best_path.path => LexBefore(best_path.path, q)

\* ------------------------------------------------------------------------
\* Properties of the quadtree
\* ------------------------------------------------------------------------
Stored == {accepted[i] : i \in 1..Len(accepted)}

Count(seq, p) == Cardinality({i \in 1..Len(seq) : seq[i] = p})

\* C6: get_nearest_point(q, infinity, filter) returns a stored point that
\* satisfies the filter, no stored point satisfying the filter is closer to
\* q, and min_dist is on return the distance from q to the returned point.
C6_NearestIsNearest ==
  (answer.op = "get_nearest_point"
     /\ \E p \in Stored : p.parent_id \in answer.filter) =>
    /\ answer.ret \in Stored
    /\ answer.ret.parent_id \in answer.filter
    /\ \A p \in Stored :
         p.parent_id \in answer.filter =>
           distance_2d(answer.ret, answer.query_point) <= distance_2d(p, answer.query_point)
    /\ answer.min_dist = distance_2d(answer.ret, answer.query_point)

\* C6 witness: the search went into a subdivided tree and returned a point
\* although a farther stored point satisfies the filter too
C6_Witness ==
  /\ answer.op = "get_nearest_point"
  /\ tree.divided
  /\ answer.ret \in Stored
  /\ \E p \in Stored :
       /\ p.parent_id \in answer.filter
       /\ distance_2d(p, answer.query_point) > distance_2d(answer.ret, answer.query_point)

\* C7: query(range, out) appends exactly the accepted points that lie in the
\* closed range, each stored copy once; a point outside the tree boundary is
\* rejected by insert and never reported.
C7_QueryIsExact ==
  /\ answer.op = "query" =>
       /\ \A p \in Points :
            Count(answer.found, p) =
              IF contains(answer.range, p) THEN Count(accepted, p) ELSE 0
       /\ Len(answer.found) =
            Cardinality({i \in 1..Len(accepted) : contains(answer.range, accepted[i])})
  /\ (answer.op = "insert" /\ ~contains(RootBoundary, answer.point)) =>
       answer.ret = "false"
  /\ \A p \in Stored : contains(RootBoundary, p)

\* C7 witness: a query on a subdivided tree reported some of the stored
\* points and left others out
C7_Witness ==
  /\ answer.op = "query"
  /\ tree.divided
  /\ Len(answer.found) >= 1
  /\ Len(answer.found) < Len(accepted)

\* C20: b is in to_successors[a] exactly when a is in to_predecessors[b]
\* exactly when all_connections holds a connection from a to b;
\* all_connections holds one connection per ordered pair at most; and an
\* add_connection call made a second time with the same connection leaves
\* the graph as the first call left it.
C20_ConnectionsAreMirrored ==
  /\ \A a, b \in QueryLanes :
       /\ (b \in to_successors[a]) = (a \in to_predecessors[b])
       /\ (b \in to_successors[a]) = HasConnection(all_connections, a, b)
  /\ \A c, d \in all_connections :
       (c.from_id = d.from_id /\ c.to_id = d.to_id) => c = d
  /\ \A f \in Lanes, t \in Lanes, w \in Weights :
       LET c == [from_id |-> f, to_id |-> t, weight |-> w]
       IN add_connection(add_connection(Graph, c), c) = add_connection(Graph, c)
  /\ \A c \in all_connections : add_connection(Graph, c) = Graph

\* C20 witness: two lanes are connected in both directions and a call that
\* names a pair already connected, with another weight, changes nothing
C20_Witness ==
  /\ HasConnection(all_connections, 1, 2)
  /\ HasConnection(all_connections, 2, 1)
  /\ 1 \in to_predecessors[2] /\ 1 \in to_successors[2]
  /\ \E w \in Weights :
       /\ w # find_connection(all_connections, 1, 2).weight
       /\ add_connection(Graph, [from_id |-> 1, to_id |-> 2, weight |-> w]) = Graph

\* the node t and every node below it is a leaf with at most cap points, or
\* has four children, no points of its own, and child boundaries that are
\* the four quarters of its boundary cut at the mid-point
RECURSIVE NodeIsLeafOrSplit(_, _)
NodeIsLeafOrSplit(t, cap) ==
  IF ~t.divided
    THEN Len(t.points) <= cap /\ t.kids = <<>>
    ELSE /\ Len(t.points) = 0
         /\ Len(t.kids) = 4
         /\ \E x_mid \in t.boundary.x_min..t.boundary.x_max,
               y_mid \in t.boundary.y_min..t.boundary.y_max :
              /\ 2 * x_mid = t.boundary.x_min + t.boundary.x_max
              /\ 2 * y_mid = t.boundary.y_min + t.boundary.y_max
              /\ {t.kids[i].boundary : i \in 1..4} =
                   {[x_min |-> xs[1], x_max |-> xs[2], y_min |-> ys[1], y_max |-> ys[2]] :
                      xs \in {<<t.boundary.x_min, x_mid>>, <<x_mid, t.boundary.x_max>>},
                      ys \in {<<t.boundary.y_min, y_mid>>, <<y_mid, t.boundary.y_max>>}}
         /\ \A i \in 1..4 : NodeIsLeafOrSplit(t.kids[i], cap)

\* C19: after any sequence of insert calls every node is a leaf holding at
\* most capacity points, or has four children and holds no points itself,
\* the child boundaries being the parent boundary split at the mid-point.
C19_NodeIsLeafOrSplit == NodeIsLeafOrSplit(tree, capacity)

\* C27: insert returns, for every point inside the boundary and every tree
\* earlier inserts have built, also when more than capacity stored points
\* have the coordinates of the new point
C27_InsertTerminates ==
  answer.op = "insert" => answer.ret # "diverges"

\* the place of the first insert that stored p
FirstInsert(p) == CHOOSE i \in 1..Len(accepted) :
                    accepted[i] = p /\ \A j \in 1..(i - 1) : accepted[j] # p

\* C29: of the stored points that satisfy the filter and are nearest to the
\* query point, get_nearest_point returns the one inserted first
C29_TieGoesToTheFirstInserted ==
  (answer.op = "get_nearest_point" /\ answer.ret # NoPoint) =>
    \A i \in 1..Len(accepted) :
      (/\ accepted[i].parent_id \in answer.filter
       /\ distance_2d(accepted[i], answer.query_point) = answer.min_dist)
        => FirstInsert(answer.ret) <= i

\* ------------------------------------------------------------------------
\* Properties of the map and the route
\* ------------------------------------------------------------------------
\* the parent ids of the quadtree points of m inside the window
CollectedIds(m, window) ==
  {p.parent_id : p \in {q \in PointsIn(m.quadtree) : contains(window, q)}}

\* sub is what get_submap is to return for the map m and the window
IsSubmapOf(sub, m, window) ==
  LET copied == CollectedIds(m, window) \cap DOMAIN m.lanes
      roadOf(id) == m.heap[m.lanes[id]].road_id
  IN /\ DOMAIN sub.lanes = copied
     /\ \A id \in copied :
          /\ sub.lanes[id] \in DOMAIN sub.heap
          /\ sub.lanes[id] \notin DOMAIN m.heap
          /\ sub.heap[sub.lanes[id]] = m.heap[m.lanes[id]]
          /\ \A other \in copied : sub.lanes[other] = sub.lanes[id] => other = id
     /\ DOMAIN sub.roads = {roadOf(id) : id \in copied}
     /\ \A rid \in DOMAIN sub.roads :
          /\ sub.roads[rid].id = m.roads[rid].id
          /\ sub.roads[rid].lanes = {sub.lanes[id] : id \in {i \in copied : roadOf(i) = rid}}
     /\ sub.lane_graph.conns =
          {c \in m.lane_graph.conns : /\ c.from_id \in CollectedIds(m, window)
                                      /\ c.to_id \in CollectedIds(m, window)}

\* C14: a get_submap call that returns leaves the source map as it was and
\* returns a map whose lanes are the source lanes with a quadtree point in
\* the window, each a copy at an address of its own, whose roads are the
\* roads of those lanes carrying exactly the copies, and whose lane_graph
\* holds the source connections with both ends among the collected ids.
C14_SubmapIsTheWindowedCopy ==
  [][(result' # result /\ result'.op = "get_submap" /\ result'.returned) =>
       /\ UNCHANGED <<tree, capacity, lanes, roads, heap, graphVars>>
       /\ IsSubmapOf(result'.submap, Source, result'.window)]_vars

\* a submap that leaves out a lane of the source, keeps a connection and
\* drops another
C14_Witness ==
  /\ result.op = "get_submap" /\ result.returned
  /\ DOMAIN result.submap.lanes # {}
  /\ DOMAIN result.submap.lanes # DOMAIN lanes
  /\ result.submap.lane_graph.conns # {}
  /\ result.submap.lane_graph.conns # all_connections

\* the centre line samples of the lanes of the map m
CenterPoints(m) ==
  UNION {{m.heap[m.lanes[id]].borders.center[i] :
            i \in 1..Len(m.heap[m.lanes[id]].borders.center)} : id \in DOMAIN m.lanes}

\* C15: the quadtree of a returned submap holds every centre interpolated
\* point of every copied lane, and no other point.
C15_SubmapQuadtreeHoldsTheCenterPoints ==
  (result.op = "get_submap" /\ result.returned) =>
    PointsIn(result.submap.quadtree) = CenterPoints(result.submap)

\* C16: whenever get_s finds a nearest quadtree point on a lane of the
\* route, the value it returns lies in [0, route_length].
C16_SWithinTheRoute ==
  (result.op = "get_s" /\ ~result.raised /\ result.ret # Infinity) =>
    (0 <= result.ret /\ result.ret <= get_length(route))

\* some walk over stored connections leads from a to b
Reachable(a, b) == LeastCost(Cardinality(QueryLanes), a, b) < Infinity

\* no point stored in the quadtree has its parent_id in filter
NoneSatisfies(filter) == ~\E p \in PointsIn(tree) : p.parent_id \in filter

\* get_nearest_point returns none when no stored point satisfies the filter
NearestIsAbsent ==
  \A q \in QueryPoints, filter \in SUBSET Lanes :
    NoneSatisfies(filter) =>
      get_nearest_point(tree, q, Infinity, filter, tieOrder).pt = NoPoint

\* get_s returns +infinity, and does not raise, when the route has no map or
\* no point of a route lane is found
GetSIsAbsent ==
  (/\ result.op = "get_s"
   /\ ~route.has_map \/ NoneSatisfies(DOMAIN route.lane_to_sections)) =>
    (~result.raised /\ result.ret = Infinity)

\* C17 as stated: get_best_path returns an empty path whenever the target is
\* unreachable or the start has no successors, get_nearest_point returns
\* none when no stored point satisfies the filter, get_s returns +infinity
\* when the route has no map or no point of a route lane is found.
C17_AbsentResults_AnyStart ==
  /\ result = NoResult =>
       /\ \A from \in QueryLanes, to \in QueryLanes :
            (~Reachable(from, to) \/ to_successors[from] = {}) =>
              get_best_path(to_successors, all_connections, from, to) = <<>>
       /\ NearestIsAbsent
  /\ GetSIsAbsent

\* C17: get_best_path returns an empty path when the target is unreachable,
\* as it is when the start has no successors and is not the target itself;
\* get_nearest_point returns none when no stored point satisfies the filter;
\* get_s returns +infinity when the route has no map or no point of a route
\* lane is found.  None of them raises.
C17_AbsentResults ==
  /\ result = NoResult =>
       /\ \A from \in QueryLanes, to \in QueryLanes :
            (~Reachable(from, to) \/ (to_successors[from] = {} /\ to # from)) =>
              get_best_path(to_successors, all_connections, from, to) = <<>>
       /\ NearestIsAbsent
  /\ GetSIsAbsent

\* get_s found no point of a route lane although the quadtree holds points
\* and the graph holds connections: the route has no section, its end being
\* out of reach
C17_Witness ==
  /\ result.op = "get_s"
  /\ result.ret = Infinity
  /\ route.has_map
  /\ route.sections = <<>>
  /\ PointsIn(tree) # {}
  /\ all_connections # {}

\* C18: is_point_on_road(p) is true if and only if the quadtree has a
\* nearest point n to p, the lane of n is in the map, and the distance from
\* p to n is strictly less than half the width of that lane at n.s; it is
\* false for an empty quadtree and when the distance equals half the width.
\* (Distances and widths are squared: d < w / 2 reads 4 * d^2 < w^2.)
C18_OnRoadIffWithinHalfWidth ==
  result.op = "is_point_on_road" =>
    LET n == get_nearest_point(tree, result.point, Infinity, AnyLane, tieOrder).pt
        d == distance_2d(result.point, n)
        inMap == n.parent_id \in DOMAIN lanes
        w == get_width(heap[lanes[n.parent_id]], n.s)
    IN /\ (n # NoPoint) <=> (PointsIn(tree) # {})
       /\ n # NoPoint =>
            /\ n \in PointsIn(tree)
            /\ \A p \in PointsIn(tree) : d <= distance_2d(result.point, p)
       /\ result.ret <=> (n # NoPoint /\ inMap /\ 4 * d < w)
       /\ PointsIn(tree) = {} => ~result.ret
       /\ (n # NoPoint /\ inMap /\ 4 * d = w) => ~result.ret

\* the point asked about lies at exactly half the width of the lane of its
\* nearest point
C18_Witness ==
  /\ result.op = "is_point_on_road"
  /\ ~result.ret
  /\ LET n == get_nearest_point(tree, result.point, Infinity, AnyLane, tieOrder).pt
     IN /\ n # NoPoint
        /\ n.parent_id \in DOMAIN lanes
        /\ 4 * distance_2d(result.point, n) = get_width(heap[lanes[n.parent_id]], n.s)

NextCache ==
  \/ \E k \in Keys, v \in Values : Put(k, v)
  \/ \E k \in Keys : TryGet(k)
  \/ Destroy
  \/ \E rcap \in 1..MaxRamCap, dcap \in 1..MaxDiskCap : Construct(rcap, dcap)

\* one lifetime of the cache with its activity toggle
NextActivity ==
  \/ \E k \in Keys, v \in Values : Put(k, v)
  \/ \E k \in Keys : TryGet(k)
  \/ TurnOff
  \/ TurnOn

\* ------------------------------------------------------------------------
\* Border and BorderSpline
\* ------------------------------------------------------------------------
MaxPolyline == 3

\* adore::math::distance_2d is the Euclidean distance; the points of the
\* borders are chosen so that every distance between them is an integer
Sqrt(n) == CHOOSE r \in 0..n : r * r = n

BorderPoints == {MapPoint(0, 0, 0, 0), MapPoint(3, 0, 0, 0), MapPoint(3, 4, 0, 0)}

Polylines == UNION {[1..n -> BorderPoints] : n \in 0..MaxPolyline}

NoBorder == [points |-> <<>>, op |-> "none"]

\* Border::compute_s_values, map_cache.hpp:483-495
RECURSIVE compute_s_values(_)
compute_s_values(points) ==
  IF points = <<>> THEN <<>>
  ELSE IF Len(points) = 1 THEN <<[points[1] EXCEPT !.s = 0]>>
  ELSE LET n == Len(points)
           before == compute_s_values(SubSeq(points, 1, n - 1))
           ds == Sqrt(distance_2d(points[n], points[n - 1]))
       IN Append(before, [points[n] EXCEPT !.s = before[n - 1].s + ds])

\* remove_duplicate_points, helpers.hpp:23-30: std::unique keeps the first
\* point of every run of points with equal s
RECURSIVE remove_duplicate_points(_)
remove_duplicate_points(points) ==
  IF Len(points) <= 1 THEN points
  ELSE LET n == Len(points)
           before == remove_duplicate_points(SubSeq(points, 1, n - 1))
       IN IF points[n].s = before[Len(before)].s THEN before
          ELSE Append(before, points[n])

\* Border::points is assigned by the code that builds the border
SetPoints(points) ==
  /\ border.op # "points"
  /\ border' = [points |-> points, op |-> "points"]
  /\ UNCHANGED <<spline, spline_query, typed_lane, projVars>>
  /\ UNCHANGED otherThanGeometry

ComputeSValues ==
  /\ border' = [points |-> compute_s_values(border.points), op |-> "compute_s_values"]
  /\ UNCHANGED <<spline, spline_query, typed_lane, projVars>>
  /\ UNCHANGED otherThanGeometry

RemoveDuplicatePoints ==
  /\ border' = [points |-> remove_duplicate_points(border.points),
                op |-> "remove_duplicate_points"]
  /\ UNCHANGED <<spline, spline_query, typed_lane, projVars>>
  /\ UNCHANGED otherThanGeometry

\* The splines of the model run straight along one axis, so that the natural
\* spline through the points is the polyline itself and every coefficient is
\* an integer
SplineLines == {<<MapPoint(0, 0, 0, 0), MapPoint(1, 0, 0, 0), MapPoint(3, 0, 0, 0)>>,
                <<MapPoint(0, 0, 0, 0), MapPoint(0, 2, 0, 0), MapPoint(0, 3, 0, 0)>>}

SplinePolylines ==
  UNION {{[k \in 1..n |-> line[f[k]]] :
            f \in {g \in [1..n -> 1..3] : \A k \in 1..(n - 1) : g[k] <= g[k + 1]}} :
              line \in SplineLines, n \in 0..MaxPolyline}

\* the arguments of the queries: below s0, inside and above sn
QueryS == -1 .. 4

NoSpline == [distances_ |-> <<>>,
             a_x_ |-> <<>>, b_x_ |-> <<>>, c_x_ |-> <<>>, d_x_ |-> <<>>,
             a_y_ |-> <<>>, b_y_ |-> <<>>, c_y_ |-> <<>>, d_y_ |-> <<>>]

NoQuery == [op |-> "none", s |-> 0, i |-> 0, ds |-> 0, value |-> <<>>]

\* BorderSpline::solve_tridiagonal_system, border_spline.hpp:41-50: the matrix
\* is strictly diagonally dominant, so a zero right-hand side has the zero
\* solution only
solve_tridiagonal_system(rhs) ==
  CASE \A i \in DOMAIN rhs : rhs[i] = 0 -> [i \in DOMAIN rhs |-> 0]

\* BorderSpline::compute_spline_coefficients, border_spline.hpp:130-176;
\* the sequences hold element i of the vectors at position i + 1
compute_spline_coefficients(distances, values) ==
  LET n == Len(values) - 1
      h(i) == distances[i + 2] - distances[i + 1]
      slope(i) == (values[i + 2] - values[i + 1]) \div h(i)
      rhs == [i \in 1..(n + 1) |->
                IF i = 1 \/ i = n + 1 THEN 0
                ELSE 3 * (slope(i - 1) - slope(i - 2))]
      c == solve_tridiagonal_system(rhs)
  IN [a |-> [i \in 1..n |-> values[i]],
      b |-> [i \in 1..n |->
               slope(i - 1) - ((2 * c[i] + c[i + 1]) * h(i - 1)) \div 3],
      c |-> c,
      d |-> [i \in 1..n |-> (c[i + 1] - c[i]) \div (3 * h(i - 1))]]

\* the loop of BorderSpline::initialize, border_spline.hpp:99-117: the points
\* at distance zero from their predecessor are skipped
RECURSIVE unique_points(_)
unique_points(points) ==
  IF Len(points) <= 1 THEN points
  ELSE LET n == Len(points)
           before == unique_points(SubSeq(points, 1, n - 1))
       IN IF distance_2d(points[n - 1], points[n]) = 0 THEN before
          ELSE Append(before, points[n])

RECURSIVE cumulative_distances(_)
cumulative_distances(points) ==
  IF Len(points) <= 1 THEN [i \in DOMAIN points |-> 0]
  ELSE LET n == Len(points)
           before == cumulative_distances(SubSeq(points, 1, n - 1))
       IN Append(before, before[n - 1] + Sqrt(distance_2d(points[n - 1], points[n])))

\* BorderSpline::initialize, border_spline.hpp:89-128
initialize(points) ==
  IF Len(points) < 2 THEN [throws |-> "invalid_argument", spline |-> NoSpline]
  ELSE LET kept == unique_points(points)
           distances == cumulative_distances(kept)
           x == compute_spline_coefficients(distances, [i \in DOMAIN kept |-> kept[i].x])
           y == compute_spline_coefficients(distances, [i \in DOMAIN kept |-> kept[i].y])
       IN IF Len(distances) < 2 THEN [throws |-> "runtime_error", spline |-> NoSpline]
          ELSE [throws |-> "nothing",
                spline |-> [distances_ |-> distances,
                            a_x_ |-> x.a, b_x_ |-> x.b, c_x_ |-> x.c, d_x_ |-> x.d,
                            a_y_ |-> y.a, b_y_ |-> y.b, c_y_ |-> y.c, d_y_ |-> y.d]]

clamp(s, lo, hi) == IF s < lo THEN lo ELSE IF hi < s THEN hi ELSE s

\* std::lower_bound on distances_: the number of elements below s
lower_bound(distances, s) == Cardinality({k \in DOMAIN distances : distances[k] < s})

\* BorderSpline::find_interval, border_spline.hpp:54-69
find_interval(sp, s) ==
  LET clamped == clamp(s, sp.distances_[1], sp.distances_[Len(sp.distances_)])
      i == lower_bound(sp.distances_, clamped)
  IN IF i = 0 THEN 0
     ELSE IF i >= Len(sp.distances_) THEN Len(sp.distances_) - 2
     ELSE i - 1

\* BorderSpline::evaluate_cubic, border_spline.hpp:72-77
evaluate_cubic(a, b, c, d, ds) == a + ds * (b + ds * (c + ds * d))

\* BorderSpline::get_point_at_s, border_spline.hpp:179-189
get_point_at_s(sp, s) ==
  LET i == find_interval(sp, s)
      ds == s - sp.distances_[i + 1]
  IN [op |-> "get_point_at_s", s |-> s, i |-> i, ds |-> ds,
      value |-> <<evaluate_cubic(sp.a_x_[i + 1], sp.b_x_[i + 1], sp.c_x_[i + 1], sp.d_x_[i + 1], ds),
                  evaluate_cubic(sp.a_y_[i + 1], sp.b_y_[i + 1], sp.c_y_[i + 1], sp.d_y_[i + 1], ds)>>]

\* BorderSpline::get_x_derivative_at_s, border_spline.hpp:192-199
get_x_derivative_at_s(sp, s) ==
  LET i == find_interval(sp, s)
      ds == s - sp.distances_[i + 1]
  IN [op |-> "get_x_derivative_at_s", s |-> s, i |-> i, ds |-> ds,
      value |-> <<sp.b_x_[i + 1] + ds * (2 * sp.c_x_[i + 1] + 3 * sp.d_x_[i + 1] * ds)>>]

\* BorderSpline::get_y_derivative_at_s, border_spline.hpp:202-209
get_y_derivative_at_s(sp, s) ==
  LET i == find_interval(sp, s)
      ds == s - sp.distances_[i + 1]
  IN [op |-> "get_y_derivative_at_s", s |-> s, i |-> i, ds |-> ds,
      value |-> <<sp.b_y_[i + 1] + ds * (2 * sp.c_y_[i + 1] + 3 * sp.d_y_[i + 1] * ds)>>]

\* BorderSpline::get_x_second_derivative_at_s, border_spline.hpp:212-219
get_x_second_derivative_at_s(sp, s) ==
  LET i == find_interval(sp, s)
      ds == s - sp.distances_[i + 1]
  IN [op |-> "get_x_second_derivative_at_s", s |-> s, i |-> i, ds |-> ds,
      value |-> <<2 * sp.c_x_[i + 1] + 6 * sp.d_x_[i + 1] * ds>>]

\* BorderSpline::get_y_second_derivative_at_s, border_spline.hpp:222-229
get_y_second_derivative_at_s(sp, s) ==
  LET i == find_interval(sp, s)
      ds == s - sp.distances_[i + 1]
  IN [op |-> "get_y_second_derivative_at_s", s |-> s, i |-> i, ds |-> ds,
      value |-> <<2 * sp.c_y_[i + 1] + 6 * sp.d_y_[i + 1] * ds>>]

\* BorderSpline( points ), border_spline.hpp:84-87: a constructor that throws
\* leaves no spline behind
NewBorderSpline(points) ==
  /\ spline' = initialize(points).spline
  /\ spline_query' = NoQuery
  /\ UNCHANGED <<border, typed_lane, projVars>>
  /\ UNCHANGED otherThanGeometry

SplineQueries == {"get_point_at_s", "get_x_derivative_at_s", "get_y_derivative_at_s",
                  "get_x_second_derivative_at_s", "get_y_second_derivative_at_s"}

\* the query named op
spline_query_of(sp, op, s) ==
  CASE op = "get_point_at_s" -> get_point_at_s(sp, s)
    [] op = "get_x_derivative_at_s" -> get_x_derivative_at_s(sp, s)
    [] op = "get_y_derivative_at_s" -> get_y_derivative_at_s(sp, s)
    [] op = "get_x_second_derivative_at_s" -> get_x_second_derivative_at_s(sp, s)
    [] op = "get_y_second_derivative_at_s" -> get_y_second_derivative_at_s(sp, s)

\* a query of a spline that was initialized
QuerySpline(op, s) ==
  /\ spline # NoSpline
  /\ spline_query' = spline_query_of(spline, op, s)
  /\ UNCHANGED <<border, spline, typed_lane, projVars>>
  /\ UNCHANGED otherThanGeometry

\* a border and a spline
NextBorder ==
  \/ \E points \in Polylines : SetPoints(points)
  \/ ComputeSValues
  \/ RemoveDuplicatePoints
  \/ \E points \in SplinePolylines : NewBorderSpline(points)
  \/ \E op \in SplineQueries, s \in QueryS : QuerySpline(op, s)

\* ------------------------------------------------------------------------
\* Lane
\* ------------------------------------------------------------------------
\* Speed limits, lane.hpp:67-76, in units of 0.00001 m/s: 1 km/h = 0.27778 m/s
DRIVING_SPEED_LIMIT_RURAL == 2777800
DRIVING_SPEED_LIMIT_MOTORWAY == 3611140
DRIVING_SPEED_LIMIT_TOWN == 1388900
DRIVING_SPEED_LIMIT_LOW_SPEED == 833340
PARKING_SPEED_LIMIT == 138890
RESTRICTED_SPEED_LIMIT == 277780
BIKING_SPEED_LIMIT == 694450
PEDESTRIAN_SPEED_LIMIT == 138890

\* 2.0 m/s, lane.cpp:133, and the initializer of Lane::speed_limit, lane.hpp:87
UNDEFINED_TYPE_SPEED_LIMIT == 200000
DEFAULT_SPEED_LIMIT == 500000

\* enum LaneType, lane.hpp:43-54
LaneType == {"driving", "parking", "restricted", "none", "sidewalk", "biking",
             "shoulder", "tram", "bus"}

\* enum RoadCategory, lane.hpp:56-65
RoadCategory == {"unknown", "rural", "motorway", "town", "low_speed", "pedestrian",
                 "bicycle"}

\* type_map of Lane::set_type, lane.cpp:64-76
type_map == [driving |-> "driving", parking |-> "parking", restricted |-> "restricted",
             none |-> "none", sidewalk |-> "sidewalk", walking |-> "sidewalk",
             biking |-> "biking", Bicycle |-> "biking", shoulder |-> "shoulder",
             bus |-> "bus", tram |-> "tram"]

\* the type strings given to set_type: the keys of type_map and strings that
\* are not keys of it
TypeStrings == DOMAIN type_map \cup {"", "Driving", "bicycle", "Walking", "unknown"}

\* a Lane before set_type: Lane::type has no initializer
NoLane == [type |-> "indeterminate", speed_limit |-> DEFAULT_SPEED_LIMIT,
           type_str |-> "", road_category |-> "unknown"]

\* a switch that gives every driving lane the rural limit
speed_limit_of_without_categories(type, road_category) ==
  CASE type = "driving" -> DRIVING_SPEED_LIMIT_RURAL
    [] type = "parking" -> PARKING_SPEED_LIMIT
    [] type = "restricted" -> RESTRICTED_SPEED_LIMIT
    [] type \in {"sidewalk", "shoulder", "bus"} -> PEDESTRIAN_SPEED_LIMIT
    [] type = "biking" -> BIKING_SPEED_LIMIT
    [] type = "tram" -> DRIVING_SPEED_LIMIT_TOWN
    [] OTHER -> UNDEFINED_TYPE_SPEED_LIMIT

\* the switch of Lane::set_type, lane.cpp:89-135
speed_limit_of(type, road_category) ==
  CASE type = "driving" ->
         (CASE road_category = "rural" -> DRIVING_SPEED_LIMIT_RURAL
            [] road_category = "motorway" -> DRIVING_SPEED_LIMIT_MOTORWAY
            [] road_category = "town" -> DRIVING_SPEED_LIMIT_TOWN
            [] road_category = "low_speed" -> DRIVING_SPEED_LIMIT_LOW_SPEED
            [] OTHER -> DRIVING_SPEED_LIMIT_RURAL)
    [] type = "parking" -> PARKING_SPEED_LIMIT
    [] type = "restricted" -> RESTRICTED_SPEED_LIMIT
    [] type = "sidewalk" -> PEDESTRIAN_SPEED_LIMIT
    [] type = "shoulder" -> PEDESTRIAN_SPEED_LIMIT
    [] type = "bus" -> PEDESTRIAN_SPEED_LIMIT
    [] type = "biking" -> BIKING_SPEED_LIMIT
    [] type = "tram" -> DRIVING_SPEED_LIMIT_TOWN
    [] OTHER -> UNDEFINED_TYPE_SPEED_LIMIT

\* Lane::set_type, lane.cpp:61-136
set_type(lane, type_str, road_category) ==
  LET type == IF type_str \in DOMAIN type_map THEN type_map[type_str] ELSE "none"
  IN [lane EXCEPT !.type = type, !.speed_limit = speed_limit_of(type, road_category)]

\* a call of set_type on the lane, whatever type and limit it has
SetType(type_str, road_category) ==
  /\ typed_lane' = [set_type(typed_lane, type_str, road_category) EXCEPT
                      !.type_str = type_str, !.road_category = road_category]
  /\ UNCHANGED <<borderVars, projVars>>
  /\ UNCHANGED otherThanGeometry

\* a lane
NextLane == \E type_str \in TypeStrings, road_category \in RoadCategory :
              SetType(type_str, road_category)

\* ------------------------------------------------------------------------
\* The projection transforms, lat_long_conversions.cpp. proj_pc[t] is the
\* statement thread t is executing; a call into the CRS library can fail,
\* and the transform then cleans up and leaves
\* ------------------------------------------------------------------------
ProjThreads == {1, 2}

\* the calls into the CRS library of convert_lat_lon_to_utm, in their order
LatLonToUtmCalls == <<"utm_proj_context_create", "utm_proj_create", "utm_proj_create_latlong",
                      "utm_proj_trans_latlong", "utm_proj_trans", "utm_proj_destroy">>

\* the calls into the CRS library of convert_utm_to_lat_lon, in their order
UtmToLatLonCalls == <<"latlon_proj_context_create", "latlon_proj_create", "latlon_proj_trans",
                      "latlon_proj_errno", "latlon_proj_destroy">>

Range(seq) == {seq[i] : i \in DOMAIN seq}

PositionOf(seq, e) == CHOOSE i \in DOMAIN seq : seq[i] = e

\* the statement after call number i of steps: the next call, after a failure
\* the cleanup (the last call) when something was created, and else the end
After(steps, i, fails) ==
  IF i = Len(steps) \/ (fails /\ i = 1) THEN "return"
  ELSE IF fails THEN steps[Len(steps)]
  ELSE steps[i + 1]

ProjFrame ==
  /\ UNCHANGED <<borderVars, typed_lane>>
  /\ UNCHANGED otherThanGeometry

\* convert_lat_lon_to_utm is called, lat_long_conversions.cpp:105-106: the
\* thread waits for proj_mutex
ConvertLatLonToUtm(t) ==
  /\ proj_pc[t] = "idle"
  /\ proj_pc' = [proj_pc EXCEPT ![t] = "utm_lock"]
  /\ UNCHANGED proj_mutex
  /\ ProjFrame

\* std::lock_guard lock( proj_mutex ), lat_long_conversions.cpp:108
LockProjMutex(t) ==
  /\ proj_pc[t] = "utm_lock"
  /\ proj_mutex = 0
  /\ proj_mutex' = t
  /\ proj_pc' = [proj_pc EXCEPT ![t] = LatLonToUtmCalls[1]]
  /\ ProjFrame

\* one call into the CRS library ends, lat_long_conversions.cpp:113-168
LatLonToUtmCall(t, fails) ==
  /\ proj_pc[t] \in Range(LatLonToUtmCalls)
  /\ proj_pc' = [proj_pc EXCEPT ![t] =
                   IF After(LatLonToUtmCalls, PositionOf(LatLonToUtmCalls, proj_pc[t]), fails) = "return"
                   THEN "utm_return"
                   ELSE After(LatLonToUtmCalls, PositionOf(LatLonToUtmCalls, proj_pc[t]), fails)]
  /\ UNCHANGED proj_mutex
  /\ ProjFrame

\* the return of convert_lat_lon_to_utm, lat_long_conversions.cpp:170-181:
\* the lock_guard releases proj_mutex
LatLonToUtmReturn(t) ==
  /\ proj_pc[t] = "utm_return"
  /\ proj_mutex' = 0
  /\ proj_pc' = [proj_pc EXCEPT ![t] = "idle"]
  /\ ProjFrame

\* convert_utm_to_lat_lon is called, lat_long_conversions.cpp:183-188: its
\* first statement after the result vector is proj_context_create
ConvertUtmToLatLon(t) ==
  /\ proj_pc[t] = "idle"
  /\ proj_pc' = [proj_pc EXCEPT ![t] = UtmToLatLonCalls[1]]
  /\ UNCHANGED proj_mutex
  /\ ProjFrame

\* one call into the CRS library ends, lat_long_conversions.cpp:188-226
UtmToLatLonCall(t, fails) ==
  /\ proj_pc[t] \in Range(UtmToLatLonCalls)
  /\ proj_pc' = [proj_pc EXCEPT ![t] =
                   IF After(UtmToLatLonCalls, PositionOf(UtmToLatLonCalls, proj_pc[t]), fails) = "return"
                   THEN "idle"
                   ELSE After(UtmToLatLonCalls, PositionOf(UtmToLatLonCalls, proj_pc[t]), fails)]
  /\ UNCHANGED proj_mutex
  /\ ProjFrame

\* threads calling the projection transforms
NextProj ==
  \/ \E t \in ProjThreads : ConvertLatLonToUtm(t)
  \/ \E t \in ProjThreads : LockProjMutex(t)
  \/ \E t \in ProjThreads, fails \in BOOLEAN : LatLonToUtmCall(t, fails)
  \/ \E t \in ProjThreads : LatLonToUtmReturn(t)
  \/ \E t \in ProjThreads : ConvertUtmToLatLon(t)
  \/ \E t \in ProjThreads, fails \in BOOLEAN : UtmToLatLonCall(t, fails)

\* ------------------------------------------------------------------------
\* Properties of the border and its spline
\* ------------------------------------------------------------------------
\* C22: every query of the spline works on s clamped into [s0, sn]: its
\* interval index is the index of a knot at or below the clamped s within
\* 0..n-1, its offset ds lies within 0 and the length of that interval, and
\* for s outside [s0, sn] its result is the result at the nearer end
C22_QueriesClampS ==
  spline_query.op # "none" =>
    LET d == spline.distances_
        n == Len(d) - 1
        i == spline_query.i
        clamped == clamp(spline_query.s, d[1], d[n + 1])
    IN /\ i \in 0..(n - 1)
       /\ d[i + 1] <= clamped /\ clamped <= d[i + 2]
       /\ 0 <= spline_query.ds /\ spline_query.ds <= d[i + 2] - d[i + 1]
       /\ spline_query.value = spline_query_of(spline, spline_query.op, clamped).value

\* C23: after compute_s_values the s-values of the points of the border are
\* strictly increasing, also when consecutive points have the same
\* coordinates
C23_SValuesStrictlyIncrease ==
  border.op = "compute_s_values" =>
    \A i \in 2..Len(border.points) : border.points[i - 1].s < border.points[i].s

\* ------------------------------------------------------------------------
\* Properties of the lane
\* ------------------------------------------------------------------------
\* a speed limit rounded to hundredths of a m/s
Hundredths(limit) == (limit + 500) \div 1000

\* the lane type and the limit in hundredths of a m/s of the table
TableType(type_str) ==
  IF type_str = "walking" THEN "sidewalk"
  ELSE IF type_str = "Bicycle" THEN "biking"
  ELSE IF type_str \in LaneType THEN type_str
  ELSE "none"

TableLimit(type, road_category) ==
  CASE type = "driving" ->
         (CASE road_category = "rural" -> 2778
            [] road_category = "motorway" -> 3611
            [] road_category = "town" -> 1389
            [] road_category = "low_speed" -> 833
            [] OTHER -> 2778)
    [] type = "parking" -> 139
    [] type = "restricted" -> 278
    [] type \in {"sidewalk", "shoulder", "bus"} -> 139
    [] type = "biking" -> 694
    [] type = "tram" -> 1389
    [] type = "none" -> 200

\* C24: after set_type the lane has the type and the speed limit of the
\* fixed table, for every type string and every road category
C24_SpeedLimitTable ==
  typed_lane # NoLane =>
    /\ typed_lane.type = TableType(typed_lane.type_str)
    /\ Hundredths(typed_lane.speed_limit) =
         TableLimit(TableType(typed_lane.type_str), typed_lane.road_category)

C24_Witness ==
  /\ typed_lane.type_str = "Bicycle"
  /\ typed_lane.road_category = "motorway"
  /\ typed_lane.type = "biking"

\* ------------------------------------------------------------------------
\* Properties of the projection transforms
\* ------------------------------------------------------------------------
InLibrary(t) == proj_pc[t] \in Range(LatLonToUtmCalls) \cup Range(UtmToLatLonCalls)

\* C30: no two threads are inside calls of the CRS library at the same time
C30_TransformsAreSerialized ==
  \A t \in ProjThreads, u \in ProjThreads : (InLibrary(t) /\ InLibrary(u)) => t = u

\* the cache
\* The state after construction: a MapCache on an empty directory with sizes
\* from rcaps and dcaps, an empty RoadGraph, and an empty Quadtree with a
\* capacity from caps and a quadrant tie order from ties
Init(rcaps, dcaps, caps, ties) ==
  /\ ram_cache = <<>>
  /\ disk_cache = <<>>
  /\ entry_count = 0
  /\ on_final_clear = FALSE
  /\ is_active = TRUE
  /\ ram_cache_size \in rcaps
  /\ disk_cache_size \in dcaps
  /\ files = <<>>
  /\ cached_map = <<>>
  /\ alive = TRUE
  /\ last = NoOp
  /\ lastPut = [k \in Keys |-> NoPut]
  /\ written = [k \in Keys |-> NoBlob]
  /\ pc = [t \in Threads |-> "idle"]
  /\ call = [t \in Threads |-> NoCall]
  /\ held = [t \in Threads |-> NoLocals]
  /\ ret = [t \in Threads |-> Null]
  /\ base = State
  /\ calls = 0
  /\ lanes = <<>>
  /\ roads = <<>>
  /\ heap = <<>>
  /\ route = NoRoute
  /\ result = NoResult
  /\ to_successors = [n \in QueryLanes |-> {}]
  /\ to_predecessors = [n \in QueryLanes |-> {}]
  /\ successor_order = [n \in QueryLanes |-> <<>>]
  /\ all_connections = {}
  /\ best_path = NoPath
  /\ tree = Leaf(RootBoundary)
  /\ capacity \in caps
  /\ tieOrder \in ties
  /\ accepted = <<>>
  /\ hung = FALSE
  /\ answer = NoAnswer
  /\ border = NoBorder
  /\ spline = NoSpline
  /\ spline_query = NoQuery
  /\ typed_lane = NoLane
  /\ proj_pc = [t \in ProjThreads |-> "idle"]
  /\ proj_mutex = 0

\* the cache
Spec == Init(1..MaxRamCap, 1..MaxDiskCap, {1}, {"stable"})
        /\ [][NextCache]_vars

SpecActivity == Init(1..MaxRamCap, 1..MaxDiskCap, {1}, {"stable"})
                /\ [][NextActivity]_vars

\* the cache called from two threads
SpecThreads == Init(1..MaxRamCap, 1..MaxDiskCap, {1}, {"stable"})
               /\ [][NextThreads]_vars

\* the map and a route on it
SpecMap == Init({1}, {1}, 1..MaxCapacity, {"stable", "reversed"})
           /\ [][NextMap]_vars

\* the road graph
SpecGraph == Init({1}, {1}, {1}, {"stable"})
             /\ [][NextGraph]_vars

\* the quadtree
SpecTree == Init({1}, {1}, 1..MaxCapacity, {"stable", "reversed"})
            /\ [][NextTree]_vars

\* a border and a spline
SpecBorder == Init({1}, {1}, {1}, {"stable"})
              /\ [][NextBorder]_vars

\* a lane
SpecLane == Init({1}, {1}, {1}, {"stable"})
            /\ [][NextLane]_vars

\* threads calling the projection transforms
SpecProj == Init({1}, {1}, {1}, {"stable"})
            /\ [][NextProj]_vars

====
